---- MODULE Spec2Model ----
(***************************************************************************)
(* A model of LaundR (src/laundr.py, src/database/db_manager.py): the      *)
(* card-dump codec, the signature classifier, the balance mutation engine  *)
(* and the undo/redo history.  Block data is held the way the program      *)
(* holds it: as the text of a block line (a string of two-character        *)
(* tokens), decoded to bytes only where the code decodes it.               *)
(***************************************************************************)
EXTENDS Integers, Sequences, FiniteSets, TLC

VARIABLES
    blocks,                 \* LaundRApp.blocks: block index -> text of the block
    headers,                \* LaundRApp.headers: header lines, in file order
    card_type,              \* LaundRApp.card_type: "1K" or "4K"
    detected_balance_block, \* LaundRApp.detected_balance_block (None before a scan)
    detected_operator,      \* (operator id, name, confidence) of the last scan
    current_block,          \* LaundRApp.current_block: the block selected in the tree
    history,                \* HistoryManager.history: list of HistoryEntry
    current_index,          \* HistoryManager.current_index
    max_history,            \* HistoryManager.max_history
    db,                     \* LaundRDatabase: the rows the queries return
    ops,                    \* the calls made on a bare HistoryManager, with results
    discarded,              \* entries cut off by a push made after an undo
    last,                   \* the handler that ran last: its inputs, locals, outcome
    loads,                  \* number of load_file calls so far
    edits                   \* number of editing handlers run so far

vars == <<blocks, headers, card_type, detected_balance_block, detected_operator,
          current_block, history, current_index, max_history, db,
          ops, discarded, last, loads, edits>>

appVars == <<blocks, headers, card_type, detected_balance_block,
             detected_operator, current_block>>

\* Python's None, one value per type it stands in for
None == -1                      \* in place of a block index or an integer

NoBytes == <<-1>>               \* in place of a bytes value

NoEntry == [none |-> TRUE]      \* in place of a HistoryEntry

(***************************************************************************)
(* Bounds of the model.                                                    *)
(***************************************************************************)
MaxOps == 7        \* calls made on a bare HistoryManager
MaxCap == 3        \* largest max_history tried for a bare HistoryManager
MaxSteps == 2      \* files loaded and edits made in one session of the application
MaxSigs == 2       \* signature rows returned to one classifier run

(***************************************************************************)
(* Python built-ins on strings and bytes.                                  *)
(***************************************************************************)
Min(a, b) == IF a < b THEN a ELSE b

Max(a, b) == IF a > b THEN a ELSE b

Range(s) == {s[i] : i \in 1..Len(s)}

\* s[i] for a 0-based index i, as a one-character string
CharAt(s, i) == SubSeq(s, i + 1, i + 1)

\* s[i:] for a 0-based index i
From(s, i) == SubSeq(s, i + 1, Len(s))

\* s[i:j] for 0-based i, j (clamped like a Python slice)
Slice(s, i, j) == SubSeq(s, i + 1, Min(j, Len(s)))

UpperMap ==
    "a" :> "A" @@ "b" :> "B" @@ "c" :> "C" @@ "d" :> "D" @@ "e" :> "E" @@
    "f" :> "F" @@ "g" :> "G" @@ "h" :> "H" @@ "i" :> "I" @@ "j" :> "J" @@
    "k" :> "K" @@ "l" :> "L" @@ "m" :> "M" @@ "n" :> "N" @@ "o" :> "O" @@
    "p" :> "P" @@ "q" :> "Q" @@ "r" :> "R" @@ "s" :> "S" @@ "t" :> "T" @@
    "u" :> "U" @@ "v" :> "V" @@ "w" :> "W" @@ "x" :> "X" @@ "y" :> "Y" @@
    "z" :> "Z"

UpperChar(c) == IF c \in DOMAIN UpperMap THEN UpperMap[c] ELSE c

RECURSIVE upper(_)
\* str.upper()
upper(s) == IF s = "" THEN "" ELSE UpperChar(Head(s)) \o upper(Tail(s))

IsSpace(c) == c = " "

RECURSIVE lstrip(_)
lstrip(s) == IF s # "" /\ IsSpace(Head(s)) THEN lstrip(Tail(s)) ELSE s

RECURSIVE rstrip(_)
rstrip(s) ==
    IF s # "" /\ IsSpace(CharAt(s, Len(s) - 1))
    THEN rstrip(SubSeq(s, 1, Len(s) - 1)) ELSE s

\* str.strip()
strip(s) == rstrip(lstrip(s))

\* str.startswith(p)
startswith(s, p) == Len(s) >= Len(p) /\ SubSeq(s, 1, Len(p)) = p

RECURSIVE replace(_, _, _)
\* str.replace(old, new) for a one-character old
replace(s, old, new) ==
    IF s = "" THEN ""
    ELSE (IF Head(s) = old THEN new ELSE Head(s)) \o replace(Tail(s), old, new)

RECURSIVE contains(_, _)
\* c in s, for a one-character c
contains(s, c) == s # "" /\ (Head(s) = c \/ contains(Tail(s), c))

RECURSIVE WordEnd(_, _)
\* the index just past the run of non-space characters starting at 0-based i
WordEnd(s, i) ==
    IF i < Len(s) /\ ~IsSpace(CharAt(s, i)) THEN WordEnd(s, i + 1) ELSE i

RECURSIVE split(_)
\* str.split(): the whitespace-separated words of s
split(s) ==
    LET t == lstrip(s)
        e == WordEnd(t, 0)
    IN  IF t = "" THEN <<>> ELSE <<Slice(t, 0, e)>> \o split(From(t, e))

RECURSIVE join(_, _)
\* sep.join(parts)
join(sep, parts) ==
    IF parts = <<>> THEN ""
    ELSE IF Len(parts) = 1 THEN parts[1]
    ELSE parts[1] \o sep \o join(sep, Tail(parts))

RECURSIVE Pairs(_)
\* [clean[i:i+2] for i in range(0, len(clean), 2)]
Pairs(s) ==
    IF s = "" THEN <<>> ELSE <<Slice(s, 0, 2)>> \o Pairs(From(s, Min(2, Len(s))))

Digits == "0123456789"

DigitVal ==
    "0" :> 0 @@ "1" :> 1 @@ "2" :> 2 @@ "3" :> 3 @@ "4" :> 4 @@
    "5" :> 5 @@ "6" :> 6 @@ "7" :> 7 @@ "8" :> 8 @@ "9" :> 9

IsDigit(c) == c \in DOMAIN DigitVal

RECURSIVE str(_)
\* str(n) for n >= 0
str(n) == IF n < 10 THEN CharAt(Digits, n) ELSE str(n \div 10) \o CharAt(Digits, n % 10)

RECURSIVE ParseInt(_, _)
\* int(s) for a string of digits, acc = value of the digits read so far
ParseInt(s, acc) ==
    IF s = "" THEN acc ELSE ParseInt(Tail(s), 10 * acc + DigitVal[Head(s)])

int(s) == ParseInt(s, 0)

HexChars == "0123456789ABCDEF"

HexVal ==
    DigitVal @@
    "A" :> 10 @@ "B" :> 11 @@ "C" :> 12 @@ "D" :> 13 @@ "E" :> 14 @@ "F" :> 15 @@
    "a" :> 10 @@ "b" :> 11 @@ "c" :> 12 @@ "d" :> 13 @@ "e" :> 14 @@ "f" :> 15

IsHex(c) == c \in DOMAIN HexVal

\* f"{b:02X}"
Hex02X(b) == CharAt(HexChars, b \div 16) \o CharAt(HexChars, b % 16)

RECURSIVE AllHex(_)
AllHex(s) == s = "" \/ (IsHex(Head(s)) /\ AllHex(Tail(s)))

RECURSIVE HexBytes(_)
HexBytes(s) ==
    IF s = "" THEN <<>>
    ELSE <<16 * HexVal[CharAt(s, 0)] + HexVal[CharAt(s, 1)]>> \o HexBytes(From(s, 2))

\* bytes.fromhex(s) for s without whitespace: NoBytes stands for ValueError
fromhex(s) ==
    IF Len(s) % 2 = 0 /\ AllHex(s) THEN HexBytes(s) ELSE NoBytes

\* " ".join([f"{b:02X}" for b in data])
HexStr(data) == join(" ", [i \in 1..Len(data) |-> Hex02X(data[i])])

XorBit(a, b) == IF a = b THEN 0 ELSE 1

XorNib ==
    [a \in 0..15, b \in 0..15 |->
        XorBit(a % 2, b % 2)
        + 2 * XorBit((a \div 2) % 2, (b \div 2) % 2)
        + 4 * XorBit((a \div 4) % 2, (b \div 4) % 2)
        + 8 * XorBit((a \div 8) % 2, (b \div 8) % 2)]

\* a ^ b on bytes
Xor8(a, b) == 16 * XorNib[a \div 16, b \div 16] + XorNib[a % 16, b % 16]

\* a ^ b on 16-bit values
Xor16(a, b) == 256 * Xor8(a \div 256, b \div 256) + Xor8(a % 256, b % 256)

\* struct.pack('<H', v): NoBytes stands for struct.error
PackH(v) == IF v \in 0..65535 THEN <<v % 256, v \div 256>> ELSE NoBytes

\* struct.unpack('<H', b)[0]: None stands for struct.error
UnpackH(b) == IF Len(b) = 2 THEN b[1] + 256 * b[2] ELSE None

\* struct.unpack('<I', b)[0] as its two 16-bit halves (lo + 65536 * hi)
UnpackI(b) == [lo |-> b[1] + 256 * b[2], hi |-> b[3] + 256 * b[4]]

\* v < 1000000 for a 32-bit v given by its halves (1000000 = 15 * 65536 + 16960)
BelowMillion(v) == v.hi < 15 \/ (v.hi = 15 /\ v.lo < 16960)

\* v > 50000 for a 32-bit v given by its halves
Above50000(v) == v.hi > 0 \/ v.lo > 50000

\* data[i:j] on bytes
BSlice(data, i, j) == SubSeq(data, i + 1, Min(j, Len(data)))

(***************************************************************************)
(* HistoryEntry and HistoryManager (src/laundr.py 29-135).  A manager is   *)
(* the pair of its list and its cursor; each method returns the pair it    *)
(* leaves behind.                                                          *)
(***************************************************************************)
\* HistoryEntry.__init__: the deep copy of a dict of strings is the dict's value
HistoryEntry(blks, description, timestamp) ==
    [blocks |-> blks, description |-> description, timestamp |-> timestamp]

\* a push that keeps the entries after the cursor
Truncate_keep(h, idx) == h

\* the slice of push: self.history[:self.current_index + 1]
Truncate(h, idx) ==
    IF idx < Len(h) - 1 THEN SubSeq(h, 1, idx + 1) ELSE h

\* a push that, evicting the oldest entry, shifts the cursor down with the
\* entries that remain
push_shifting(h, idx, maxh, entry) ==
    LET appended == Append(Truncate(h, idx), entry)
    IN  IF Len(appended) > maxh
        THEN [history |-> Tail(appended), current_index |-> idx - 1]
        ELSE [history |-> appended, current_index |-> idx + 1]

\* a push that moves the cursor also when it evicts the oldest entry
push_advancing(h, idx, maxh, entry) ==
    LET appended == Append(Truncate(h, idx), entry)
    IN  IF Len(appended) > maxh
        THEN [history |-> Tail(appended), current_index |-> idx + 1]
        ELSE [history |-> appended, current_index |-> idx + 1]

\* a push that does not enforce max_history
push_unbounded(h, idx, maxh, entry) ==
    [history |-> Append(Truncate(h, idx), entry), current_index |-> idx + 1]

push(h, idx, maxh, entry) ==
    LET appended == Append(Truncate(h, idx), entry)
    IN  IF Len(appended) > maxh
        THEN [history |-> Tail(appended), current_index |-> idx]
        ELSE [history |-> appended, current_index |-> idx + 1]

\* an undo that stops one entry early
can_undo_late(idx) == idx > 1

can_undo(idx) == idx > 0

\* a redo that stops one entry below the tail
can_redo_early(h, idx) == idx < Len(h) - 2

can_redo(h, idx) == idx < Len(h) - 1

undo(h, idx) ==
    IF ~can_undo(idx) THEN [current_index |-> idx, ret |-> NoEntry]
    ELSE [current_index |-> idx - 1, ret |-> h[idx]]

redo(h, idx) ==
    IF ~can_redo(h, idx) THEN [current_index |-> idx, ret |-> NoEntry]
    ELSE [current_index |-> idx + 1, ret |-> h[idx + 2]]

current(h, idx) ==
    IF 0 <= idx /\ idx < Len(h) THEN h[idx + 1] ELSE NoEntry

clear == [history |-> <<>>, current_index |-> -1]

(***************************************************************************)
(* Card layout and block access (src/laundr.py 704-722).                   *)
(***************************************************************************)
\* a layout that applies the four-block rule to every index
is_sector_trailer_small(ct, b_id) == (b_id + 1) % 4 = 0

is_sector_trailer(ct, b_id) ==
    IF ct = "1K" THEN (b_id + 1) % 4 = 0
    ELSE IF b_id < 128 THEN (b_id + 1) % 4 = 0
    ELSE (b_id + 1 - 128) % 16 = 0

\* the truth value of a bytes-or-None result
Truthy(b) == b # NoBytes /\ b # <<>>

\* the truth value of self.detected_balance_block
TruthyBlock(b) == b # None /\ b # 0

get_bytes_at(blks, block_id, start, length) ==
    IF block_id \notin DOMAIN blks THEN NoBytes
    ELSE
      LET raw_str == blks[block_id]
          words == split(raw_str)
          clean == replace(raw_str, " ", "")
          odd   == Len(words) # 16 /\ Len(clean) % 2 # 0
          parts == IF Len(words) # 16 THEN Pairs(clean) ELSE words
      IN  IF odd THEN NoBytes
          ELSE IF Len(parts) < start + length THEN NoBytes
          ELSE
            LET target_slice == SubSeq(parts, start + 1, start + length)
            IN  IF \E i \in 1..Len(target_slice) : contains(target_slice[i], "?")
                THEN NoBytes
                ELSE fromhex(join("", target_slice))

(***************************************************************************)
(* The dump codec: load_file's parser (src/laundr.py 486-526) and          *)
(* save_file's writer (src/laundr.py 1741-1758).  A file is the sequence   *)
(* of its lines.                                                           *)
(***************************************************************************)
HeaderPrefixes ==
    {"Filetype", "Version", "Device type", "UID", "ATQA", "SAK", "Mifare",
     "Data format", "#"}

IsHeader(line) == \E p \in HeaderPrefixes : startswith(line, p)

RECURSIVE SkipSpaces(_, _)
\* the 0-based index of the first non-space character of s from i on
SkipSpaces(s, i) ==
    IF i < Len(s) /\ IsSpace(CharAt(s, i)) THEN SkipSpaces(s, i + 1) ELSE i

RECURSIVE SkipDigits(_, _)
SkipDigits(s, i) ==
    IF i < Len(s) /\ IsDigit(CharAt(s, i)) THEN SkipDigits(s, i + 1) ELSE i

\* re.match(r'Block\s+(\d+)\s*:\s*(.+)', line) on a stripped line
MatchBlock(line) ==
    LET a == SkipSpaces(line, 5)        \* \s+
        b == SkipDigits(line, a)        \* (\d+)
        c == SkipSpaces(line, b)        \* \s*
        d == SkipSpaces(line, c + 1)    \* :\s*
    IN  IF /\ startswith(line, "Block")
           /\ a > 5 /\ b > a
           /\ c < Len(line) /\ CharAt(line, c) = ":"
           /\ d < Len(line)
        THEN [matched |-> TRUE, block_id |-> int(Slice(line, a, b)),
              block_data |-> strip(From(line, d))]
        ELSE [matched |-> FALSE]

Put(m, k, v) == (k :> v) @@ m

\* the loop of load_file over the lines: blank lines are skipped, header
\* lines are appended in order, and a block line assigns blocks[block_id],
\* so that the last line of an index is the one kept
Parse(lines) ==
    LET stripped == [i \in 1..Len(lines) |-> strip(lines[i])]
        is_header == [i \in 1..Len(lines) |->
                         stripped[i] # "" /\ IsHeader(stripped[i])]
        match == [i \in 1..Len(lines) |->
                     IF ~is_header[i] /\ startswith(stripped[i], "Block")
                     THEN MatchBlock(stripped[i]) ELSE [matched |-> FALSE]]
        block_lines == {i \in 1..Len(lines) : match[i].matched}
        LastOf(k) == CHOOSE i \in block_lines :
                        /\ match[i].block_id = k
                        /\ \A j \in block_lines :
                              match[j].block_id = k => j <= i
    IN  [headers |-> [n \in 1..Cardinality({i \in 1..Len(lines) : is_header[i]}) |->
                         stripped[CHOOSE i \in 1..Len(lines) :
                             /\ is_header[i]
                             /\ Cardinality({j \in 1..i : is_header[j]}) = n]],
         blocks |-> [k \in {match[i].block_id : i \in block_lines} |->
                         match[LastOf(k)].block_data]]

MaxKey(blks) == CHOOSE k \in DOMAIN blks : \A j \in DOMAIN blks : j <= k

\* the card size load_file infers from the highest block index
CardTypeOf(blks) == IF MaxKey(blks) > 63 THEN "4K" ELSE "1K"

Limit(ct) == IF ct = "4K" THEN 256 ELSE 64

DefaultTrailer == "FF FF FF FF FF FF FF 07 80 69 FF FF FF FF FF FF"

DefaultData == "00 00 00 00 00 00 00 00 00 00 00 00 00 00 00 00"

\* a writer that fills every missing block with zeros
BlockLine_zeros(blks, ct, i) ==
    "Block " \o str(i) \o ": " \o
        (IF i \in DOMAIN blks THEN upper(blks[i]) ELSE DefaultData)

BlockLine(blks, ct, i) ==
    "Block " \o str(i) \o ": " \o
        (IF i \in DOMAIN blks THEN upper(blks[i])
         ELSE IF is_sector_trailer(ct, i) THEN DefaultTrailer
         ELSE DefaultData)

\* the lines save_file writes
Serialize(hdrs, blks, ct) ==
    hdrs \o [i \in 1..Limit(ct) |-> BlockLine(blks, ct, i - 1)]

\* the image load_file builds from the lines of a file that has block lines
Load(lines) ==
    LET p == Parse(lines)
    IN  [headers |-> p.headers, blocks |-> p.blocks,
         card_type |-> CardTypeOf(p.blocks)]

(***************************************************************************)
(* The signature classifier (src/database/db_manager.py 43-117).  The      *)
(* database is the list of signature rows in the order the query returns   *)
(* them and, per operator id, the block numbers get_balance_blocks         *)
(* returns.                                                                *)
(***************************************************************************)
UnknownOperator == <<3, "Unknown", 0>>

Signature(op_id, op_name, blk, offset, length, value, type, conf) ==
    [operator_id |-> op_id, operator_name |-> op_name, block_number |-> blk,
     byte_offset |-> offset, byte_length |-> length, signature_value |-> value,
     signature_type |-> type, confidence |-> conf]

EmptyDb == [signatures |-> <<>>, balance_blocks |-> <<>>]

IsAscii(b) == b < 128

\* bytes.decode('ascii', errors='ignore'): the bytes below 128, as code points
DecodeAscii(data) == SelectSeq(data, IsAscii)

\* str.upper() on a decoded ASCII string
UpperAscii(data) ==
    [i \in 1..Len(data) |-> IF data[i] \in 97..122 THEN data[i] - 32 ELSE data[i]]

\* the comparison of one row against the block bytes (db_manager.py 59-86)
SignatureMatches(row, blocks_bytes) ==
    /\ row.block_number \in DOMAIN blocks_bytes
    /\ LET block_data == blocks_bytes[row.block_number]
           actual == BSlice(block_data, row.byte_offset,
                            row.byte_offset + row.byte_length)
       IN  /\ ~(row.byte_offset + row.byte_length > Len(block_data))
           /\ \/ row.signature_type = "exact" /\ actual = row.signature_value
              \/ /\ row.signature_type = "ascii"
                 /\ UpperAscii(DecodeAscii(actual)) =
                        UpperAscii(DecodeAscii(row.signature_value))

\* a classifier that keeps scanning and returns the last matching row
RECURSIVE detect_operator_last(_, _)
detect_operator_last(blocks_bytes, rows) ==
    IF rows = <<>> THEN UnknownOperator
    ELSE LET rest == detect_operator_last(blocks_bytes, Tail(rows))
             row == Head(rows)
         IN  IF rest # UnknownOperator THEN rest
             ELSE IF SignatureMatches(row, blocks_bytes)
             THEN <<row.operator_id, row.operator_name, row.confidence>>
             ELSE UnknownOperator

RECURSIVE detect_operator(_, _)
detect_operator(blocks_bytes, rows) ==
    IF rows = <<>> THEN UnknownOperator
    ELSE LET row == Head(rows)
         IN  IF SignatureMatches(row, blocks_bytes)
             THEN <<row.operator_id, row.operator_name, row.confidence>>
             ELSE detect_operator(blocks_bytes, Tail(rows))

get_balance_blocks(database, operator_id) ==
    IF operator_id \in DOMAIN database.balance_blocks
    THEN database.balance_blocks[operator_id] ELSE <<>>

(***************************************************************************)
(* run_full_scan (src/laundr.py 725-830).                                  *)
(***************************************************************************)
\* hex_clean of a block: spaces removed, '?' read as '0'
HexClean(block_str) == replace(replace(block_str, " ", ""), "?", "0")

\* blocks_bytes: the blocks whose text converts to bytes
BlocksBytes(blks) ==
    [b \in {k \in DOMAIN blks : fromhex(HexClean(blks[k])) # NoBytes} |->
        fromhex(HexClean(blks[b]))]

Candidate(block_id, value, high) ==
    [block |-> block_id, value |-> value, high |-> high]

\* the candidates one block contributes, in the order they are appended
BlockCandidates(blks, ct, block_id) ==
    LET block_data == get_bytes_at(blks, block_id, 0, 16)
        val_16 == UnpackH(BSlice(block_data, 0, 2))
        cnt_16 == UnpackH(BSlice(block_data, 2, 4))
        val_16_inv == UnpackH(BSlice(block_data, 4, 6))
        cnt_16_inv == UnpackH(BSlice(block_data, 6, 8))
        val_valid == Xor16(val_16, val_16_inv) = 65535
        cnt_valid == Xor16(cnt_16, cnt_16_inv) = 65535
        val_32 == UnpackI(BSlice(block_data, 0, 4))
        val_32_inv == UnpackI(BSlice(block_data, 4, 8))
        inv_32 == /\ Xor16(val_32.lo, val_32_inv.lo) = 65535
                  /\ Xor16(val_32.hi, val_32_inv.hi) = 65535
    IN  IF \/ block_id \notin DOMAIN blks
           \/ is_sector_trailer(ct, block_id)
           \/ ~Truthy(block_data)
           \/ Len(block_data) < 8
        THEN <<>>
        ELSE
          (IF (val_valid \/ cnt_valid) /\ 0 < val_16 /\ val_16 < 50000
           THEN <<Candidate(block_id, val_16, val_valid /\ cnt_valid)>>
           ELSE <<>>)
          \o
          (IF inv_32 /\ BelowMillion(val_32)
           THEN <<Candidate(block_id, val_32.lo + 65536 * val_32.hi, FALSE)>>
           ELSE <<>>)
          \o
          (IF inv_32 /\ Above50000(val_32) /\ 1000 < val_16 /\ val_16 < 65535
           THEN <<Candidate(block_id, val_16, FALSE)>> ELSE <<>>)

RECURSIVE BalanceCandidates(_, _, _)
\* balance_candidates after the loop has run over block_id..63
BalanceCandidates(blks, ct, block_id) ==
    IF block_id > 63 THEN <<>>
    ELSE BlockCandidates(blks, ct, block_id)
             \o BalanceCandidates(blks, ct, block_id + 1)

\* the index of a block in the list get_balance_blocks returned, else 99
BlockPriority(db_balance_blocks, block_id) ==
    IF \E i \in 1..Len(db_balance_blocks) : db_balance_blocks[i] = block_id
    THEN (CHOOSE i \in 1..Len(db_balance_blocks) :
              /\ db_balance_blocks[i] = block_id
              /\ \A j \in 1..(i - 1) : db_balance_blocks[j] # block_id) - 1
    ELSE 99

Flag(b) == IF b THEN 1 ELSE 0

\* the sort key of a candidate: (value == 0, priority, "High" not in tag)
SortKey(c, db_balance_blocks) ==
    <<Flag(c.value = 0),
      IF db_balance_blocks = <<>> THEN 0
      ELSE BlockPriority(db_balance_blocks, c.block),
      Flag(~c.high)>>

KeyLess(a, b) ==
    \/ a[1] < b[1]
    \/ a[1] = b[1] /\ a[2] < b[2]
    \/ a[1] = b[1] /\ a[2] = b[2] /\ a[3] < b[3]

\* candidates.sort(key=...)[0]: a stable sort puts first the earliest of the
\* candidates with the least key
FirstSorted(cands, db_balance_blocks) ==
    cands[CHOOSE i \in 1..Len(cands) :
            /\ \A j \in 1..Len(cands) :
                  ~KeyLess(SortKey(cands[j], db_balance_blocks),
                           SortKey(cands[i], db_balance_blocks))
            /\ \A j \in 1..(i - 1) :
                  KeyLess(SortKey(cands[i], db_balance_blocks),
                          SortKey(cands[j], db_balance_blocks))]

\* STEP 3 of run_full_scan
SelectBalanceBlock(cands, db_balance_blocks) ==
    IF cands # <<>> THEN FirstSorted(cands, db_balance_blocks).block
    ELSE IF db_balance_blocks # <<>> THEN db_balance_blocks[1]
    ELSE 4

\* what run_full_scan detects for a block map
Scan(blks, ct, database) ==
    LET operator == detect_operator(BlocksBytes(blks), database.signatures)
    IN  [operator |-> operator,
         balance_block |->
            SelectBalanceBlock(BalanceCandidates(blks, ct, 0),
                               get_balance_blocks(database, operator[1]))]

(***************************************************************************)
(* The balance mutation engine (src/laundr.py 876-1083).                   *)
(***************************************************************************)
\* the counter rule with a counter that wraps from 65535 to 0
NewCounter_wrapping(mode, transaction_cents, current_counter) ==
    IF mode = "legit" /\ transaction_cents # 0
    THEN (current_counter + 1) % 65536 ELSE current_counter

\* the counter rule with the increment applied in every mode
NewCounter_always(mode, transaction_cents, current_counter) ==
    IF transaction_cents # 0 THEN current_counter + 1 ELSE current_counter

\* new_counter (laundr.py 913-915)
NewCounter(mode, transaction_cents, current_counter) ==
    IF mode = "legit" /\ transaction_cents # 0
    THEN current_counter + 1 ELSE current_counter

\* new_block (laundr.py 919-930)
ValueBlock(cents, new_counter) ==
    PackH(cents) \o PackH(new_counter)
    \o PackH(Xor16(cents, 65535)) \o PackH(Xor16(new_counter, 65535))
    \o PackH(cents) \o PackH(new_counter) \o <<4, Xor8(4, 255), 4, Xor8(4, 255)>>

RECURSIVE XorAll(_)
\* the XOR of all bytes of data
XorAll(data) == IF data = <<>> THEN 0 ELSE Xor8(Head(data), XorAll(Tail(data)))

\* a record update that leaves the stored checksum byte alone
Checksummed_stale(new_b2) == new_b2

\* byte 15 := XOR of bytes 0..14 (laundr.py 1073-1076)
Checksummed(new_b2) ==
    [new_b2 EXCEPT ![16] = XorAll(SubSeq(new_b2, 1, 15))]

\* the balance read back for the refill field (laundr.py 1059-1063);
\* None stands for struct.error
CurrentBalanceCents(blks, dbb) ==
    LET bal_bytes == get_bytes_at(blks, dbb, 0, 2)
    IN  IF TruthyBlock(dbb) /\ dbb \in DOMAIN blks /\ Truthy(bal_bytes)
        THEN UnpackH(bal_bytes) ELSE 0

\* the two bytes written at offsets 9-10 (laundr.py 1057-1064)
RefillField(blks, dbb, transaction_cents) ==
    PackH(CurrentBalanceCents(blks, dbb))

\* the block map update_transaction_block leaves behind
update_transaction_block(blks, dbb, transaction_cents, legit_mode) ==
    LET b2_data == get_bytes_at(blks, 2, 0, 16)
        old_tx_id == b2_data[3] + 256 * b2_data[4] + 65536 * b2_data[5]
        new_tx_id == (old_tx_id + 1) % 16777216
        with_tx == [b2_data EXCEPT ![3] = new_tx_id % 256,
                                   ![4] = (new_tx_id \div 256) % 256,
                                   ![5] = (new_tx_id \div 65536) % 256]
        refill == RefillField(blks, dbb, transaction_cents)
        with_refill ==
            IF legit_mode
            THEN [with_tx EXCEPT ![6] = (with_tx[6] + 1) % 256,
                                 ![10] = refill[1], ![11] = refill[2]]
            ELSE with_tx
    IN  IF 2 \notin DOMAIN blks THEN blks
        ELSE IF ~Truthy(b2_data) \/ Len(b2_data) # 16 THEN blks
        ELSE IF legit_mode /\ CurrentBalanceCents(blks, dbb) = None THEN blks
        ELSE Put(blks, 2, HexStr(Checksummed(with_refill)))

\* the mirror index of the active block (laundr.py 940-944)
BackupBlock(dbb) == IF dbb = 4 THEN 8 ELSE IF dbb = 8 THEN 4 ELSE None

\* a mirror test that has lost its inverse-value check
MirrorQualifies_any(blks, dbb) ==
    LET backup_block == BackupBlock(dbb)
        old_backup == get_bytes_at(blks, backup_block, 0, 16)
    IN  /\ backup_block # None
        /\ backup_block \in DOMAIN blks
        /\ Truthy(old_backup) /\ Len(old_backup) = 16

\* whether the mirror is rewritten (laundr.py 947-953)
MirrorQualifies(blks, dbb) ==
    LET backup_block == BackupBlock(dbb)
        old_backup == get_bytes_at(blks, backup_block, 0, 16)
    IN  /\ backup_block # None
        /\ backup_block \in DOMAIN blks
        /\ Truthy(old_backup) /\ Len(old_backup) = 16
        /\ Xor16(UnpackH(BSlice(old_backup, 0, 2)),
                 UnpackH(BSlice(old_backup, 4, 6))) = 65535

\* whether refresh_ui raises on a block map (laundr.py 1091-1105, 1152-1156)
RefreshRaises(blks, dbb) ==
    LET bal_bytes == get_bytes_at(blks, dbb, 0, 2)
        cnt_bytes == get_bytes_at(blks, dbb, 2, 2)
        usages_bytes == get_bytes_at(blks, 9, 0, 2)
    IN  \/ /\ TruthyBlock(dbb) /\ dbb \in DOMAIN blks
           /\ \/ Truthy(bal_bytes) /\ Len(bal_bytes) # 2
              \/ Truthy(cnt_bytes) /\ Len(cnt_bytes) # 2
        \/ /\ 9 \in DOMAIN blks
           /\ Truthy(usages_bytes) /\ Len(usages_bytes) # 2

\* what update_balance reads from the block map before it writes: the value
\* and counter fields of the active block (laundr.py 879-883, 904-910) and
\* the mirror test (the mirror index differs from the active index, so the
\* write of the active block does not change what the test reads)
BalanceReads(blks, dbb) ==
    [old_bal_bytes |-> get_bytes_at(blks, dbb, 0, 2),
     cnt_bytes |-> get_bytes_at(blks, dbb, 2, 2),
     mirror |-> MirrorQualifies(blks, dbb)]

\* a range check that has lost its lower limit
OutOfRange_upper(cents) == cents > 65535

\* the range check of update_balance (laundr.py 892)
OutOfRange(cents) == cents < 0 \/ cents > 65535

\* update_balance for cents = int(float(text) * 100): the outcome ("ok" =
\* success message, "rejected" = range error, "error" = exception caught),
\* the block map it leaves, whether it pushed a history entry, and its locals
\* (None for a local whose computation raised or was not reached)
update_balance(blks, dbb, reads, cents, mode) ==
    LET active == TruthyBlock(dbb) /\ dbb \in DOMAIN blks
        old_cents == IF active /\ Truthy(reads.old_bal_bytes)
                     THEN UnpackH(reads.old_bal_bytes) ELSE 0
        transaction_cents == cents - old_cents
        current_counter == IF active /\ Truthy(reads.cnt_bytes)
                           THEN UnpackH(reads.cnt_bytes) ELSE 0
        new_counter == NewCounter(mode, transaction_cents, current_counter)
        new_block == ValueBlock(cents, new_counter)
        hex_str == HexStr(new_block)
        primary == Put(blks, dbb, hex_str)
        mirrored == IF reads.mirror THEN Put(primary, BackupBlock(dbb), hex_str)
                    ELSE primary
        aux == mode = "legit" /\ 2 \in DOMAIN mirrored /\ transaction_cents # 0
        final == IF aux
                 THEN update_transaction_block(mirrored, dbb,
                          IF transaction_cents < 0 THEN -transaction_cents
                          ELSE transaction_cents, TRUE)
                 ELSE mirrored
        Abort(result, cur) ==
            [result |-> result, blocks |-> blks, pushed |-> FALSE,
             wrote |-> FALSE, mirror |-> FALSE, aux |-> FALSE,
             old_cents |-> old_cents, current_counter |-> cur,
             new_counter |-> None, new_block |-> NoBytes]
    IN  IF old_cents = None THEN Abort("error", None)
        ELSE IF OutOfRange(cents) THEN Abort("rejected", None)
        ELSE IF current_counter = None THEN Abort("error", None)
        ELSE IF PackH(cents) = NoBytes \/ PackH(new_counter) = NoBytes
        THEN Abort("error", current_counter)
        ELSE IF ~TruthyBlock(dbb)
        THEN [result |-> "ok", blocks |-> blks, pushed |-> FALSE,
              wrote |-> FALSE, mirror |-> FALSE, aux |-> FALSE,
              old_cents |-> old_cents, current_counter |-> current_counter,
              new_counter |-> new_counter, new_block |-> new_block]
        ELSE [result |-> "ok", blocks |-> final, pushed |-> TRUE,
              wrote |-> TRUE, mirror |-> reads.mirror, aux |-> aux,
              old_cents |-> old_cents, current_counter |-> current_counter,
              new_counter |-> new_counter, new_block |-> new_block]

(***************************************************************************)
(* Raw block editing and access-bit reset (src/laundr.py 1654-1735).       *)
(***************************************************************************)
\* one token of the edited text, normalised
NormalizePart(part) ==
    IF part = "??" THEN "??"
    ELSE IF Len(upper(part)) = 1 THEN "0" \o upper(part) ELSE upper(part)

\* normalized_hex of commit_raw_changes
Normalize(raw_hex) ==
    LET parts == split(strip(raw_hex))
    IN  join(" ", [i \in 1..Len(parts) |-> NormalizePart(parts[i])])

\* one block after fix_access_bits
FixedBlock(ct, b_id, block_str) ==
    LET parts == split(block_str)
    IN  IF is_sector_trailer(ct, b_id) /\ Len(parts) = 16
        THEN join(" ", SubSeq(parts, 1, 6) \o <<"FF", "07", "80">>
                           \o SubSeq(parts, 10, 16))
        ELSE block_str

fix_access_bits(blks, ct) ==
    [b \in DOMAIN blks |-> FixedBlock(ct, b, blks[b])]

(***************************************************************************)
(* UID editing (src/laundr.py 2031-2170): the dialog opened on a card with *)
(* a readable block 0, and its Apply button.                               *)
(***************************************************************************)
\* the header lines with the first "UID:" line rewritten
UidHeaders(hdrs, new_uid_hex) ==
    LET uid_lines == {i \in 1..Len(hdrs) : startswith(hdrs[i], "UID:")}
        first == CHOOSE i \in uid_lines : \A j \in uid_lines : i <= j
    IN  IF uid_lines = {} THEN hdrs
        ELSE [hdrs EXCEPT ![first] = "UID: " \o join(" ", Pairs(new_uid_hex))]

\* block 0 rebuilt around a new UID: UID, BCC, the old bytes after them,
\* padded with zeros or cut to 16 bytes
UidBlock(new_uid_bytes, old_block_bytes) ==
    LET start_pos == Len(new_uid_bytes) + 1
        new_block == new_uid_bytes \o <<XorAll(new_uid_bytes)>>
                     \o SubSeq(old_block_bytes, start_pos + 1,
                               Len(old_block_bytes))
    IN  [i \in 1..16 |-> IF i <= Len(new_block) THEN new_block[i] ELSE 0]

\* edit_uid and apply_uid: "error" closes before the dialog opens,
\* "rejected" is a validation message of the dialog, "raised" is the
\* ValueError of bytes.fromhex on the stored text of block 0
edit_uid(blks, hdrs, uid_text, allow_diff_len) ==
    LET new_uid_hex == upper(replace(replace(uid_text, " ", ""), ":", ""))
        new_uid_len == Len(new_uid_hex) \div 2
        Keep(result) == [result |-> result, blocks |-> blks, headers |-> hdrs]
        Apply(current_uid_bytes, new_uid_bytes, old_block_bytes) ==
            IF ~allow_diff_len /\ new_uid_len # Len(current_uid_bytes)
            THEN Keep("rejected")
            ELSE IF new_uid_len \notin {4, 7} THEN Keep("rejected")
            ELSE IF new_uid_bytes = NoBytes THEN Keep("rejected")
            ELSE IF old_block_bytes = NoBytes THEN Keep("raised")
            ELSE [result |-> "ok",
                  blocks |-> Put(blks, 0,
                                 HexStr(UidBlock(new_uid_bytes, old_block_bytes))),
                  headers |-> UidHeaders(hdrs, new_uid_hex)]
    IN  IF 0 \notin DOMAIN blks THEN Keep("error")
        ELSE IF ~Truthy(get_bytes_at(blks, 0, 0, 4)) THEN Keep("error")
        ELSE IF Len(new_uid_hex) % 2 # 0 THEN Keep("rejected")
        ELSE Apply(get_bytes_at(blks, 0, 0, 4), fromhex(new_uid_hex),
                   fromhex(replace(blks[0], " ", "")))

(***************************************************************************)
(* The state of a freshly constructed application (LaundRApp.__init__).    *)
(***************************************************************************)
AppMaxHistory == 1000

NoCall == [op |-> "none"]

FreshApp ==
    /\ blocks = <<>>
    /\ headers = <<>>
    /\ card_type = "1K"
    /\ detected_balance_block = None
    /\ detected_operator = UnknownOperator
    /\ current_block = None

(***************************************************************************)
(* run_decoders (src/laundr.py 1293-1652).  The readings are the rows      *)
(* inserted into decoder_tree, in order.  The text of a row is kept for    *)
(* the split-value rule and the trailer rule; the rows of the other rules  *)
(* are kept by label.  Pictographs in labels and tags are left out.        *)
(***************************************************************************)
RECURSIVE replace_all(_, _, _)
\* str.replace(old, new) for a non-empty old
replace_all(s, old, new) ==
    IF s = "" THEN ""
    ELSE IF startswith(s, old)
         THEN new \o replace_all(From(s, Len(old)), old, new)
         ELSE Head(s) \o replace_all(Tail(s), old, new)

\* one row of decoder_tree
Row(label, text) == [label |-> label, text |-> text]

\* f"${cents/100:.2f}"
Money(cents) ==
    "$" \o str(cents \div 100) \o "." \o
        CharAt(Digits, (cents % 100) \div 10) \o CharAt(Digits, cents % 10)

\* data.hex().upper()
HexUpper(data) == join("", [i \in 1..Len(data) |-> Hex02X(data[i])])

\* the tag of the split-value row
SplitStatus(val_valid, cnt_valid) ==
    IF val_valid /\ cnt_valid THEN " VALID" ELSE " NO INVERSE"

\* 1. LAUNDRY SPLIT VALUE (laundr.py 1304-1345): struct.error on a short
\* slice is swallowed by the rule's try
SplitValueRows(b_id, data, blks) ==
    LET cents == UnpackH(BSlice(data, 0, 2))
        cnt == UnpackH(BSlice(data, 2, 4))
        cents_inv == UnpackH(BSlice(data, 4, 6))
        cnt_inv == UnpackH(BSlice(data, 6, 8))
        label == IF b_id = 4 THEN "Current Balance"
                 ELSE IF b_id = 8 THEN "Backup Balance"
                 ELSE IF b_id = 9 THEN "Usage Counter Value"
                 ELSE "Value Block Format"
        mirror_id == IF b_id = 4 THEN 8 ELSE 4
        Reading(val_valid, cnt_valid) ==
            <<Row(label, Money(cents) \o " (Count: " \o str(cnt) \o ")"
                             \o SplitStatus(val_valid, cnt_valid))>>
        MirrorCheck(mirror_data) ==
            IF ~Truthy(mirror_data) THEN <<>>
            ELSE IF UnpackH(mirror_data) = cents
            THEN <<Row("  -> Mirror Check",
                       "Block " \o str(mirror_id) \o " matches")>>
            ELSE <<Row("  -> Mirror Check",
                       "Block " \o str(mirror_id) \o " MISMATCH! ("
                           \o Money(UnpackH(mirror_data)) \o ")")>>
    IN  IF Len(data) < 8 THEN <<>>
        ELSE IF ~(cents < 50000 /\ cnt < 65000) THEN <<>>
        ELSE Reading(Xor16(cents, cents_inv) = 65535,
                     Xor16(cnt, cnt_inv) = 65535)
             \o (IF b_id \in {4, 8} /\ mirror_id \in DOMAIN blks
                 THEN MirrorCheck(get_bytes_at(blks, mirror_id, 0, 2))
                 ELSE <<>>)

\* v ^ v_inv == 0xFFFFFFFF for 32-bit values given by their halves
InverseI(v, v_inv) ==
    Xor16(v.lo, v_inv.lo) = 65535 /\ Xor16(v.hi, v_inv.hi) = 65535

\* struct.unpack('>I', b)[0] as its two 16-bit halves
UnpackIBE(b) == [lo |-> 256 * b[3] + b[4], hi |-> 256 * b[1] + b[2]]

\* 946684800 < ts < 2147483647 for a 32-bit ts given by its halves
\* (946684800 = 14445 * 65536 + 17280, 2147483647 = 32767 * 65536 + 65535)
IsTimestamp(ts) ==
    /\ ts.hi > 14445 \/ (ts.hi = 14445 /\ ts.lo > 17280)
    /\ ts.hi < 32767 \/ (ts.hi = 32767 /\ ts.lo < 65535)

\* 2. STANDARD MIFARE VALUE BLOCK and 3. TIMESTAMP DETECTION (laundr.py
\* 1347-1376): both rules swallow struct.error
ValueBlockRows(data) ==
    LET Standard(v1, v1_inv, v1_dup) ==
            IF ~InverseI(v1, v1_inv) THEN <<>>
            ELSE <<Row("Standard Value Block", "")>>
                 \o (IF BelowMillion(v1) THEN <<Row("  -> As Currency", "")>>
                     ELSE <<>>)
        Stamps(timestamp, timestamp_be) ==
            (IF IsTimestamp(timestamp)
             THEN <<Row("Unix Timestamp (LE)", "")>> ELSE <<>>)
            \o (IF IsTimestamp(timestamp_be)
                THEN <<Row("Unix Timestamp (BE)", "")>> ELSE <<>>)
    IN  (IF Len(data) = 16
         THEN Standard(UnpackI(BSlice(data, 0, 4)), UnpackI(BSlice(data, 4, 8)),
                       UnpackI(BSlice(data, 8, 12)))
         ELSE <<>>)
        \o (IF Len(data) >= 4
            THEN Stamps(UnpackI(BSlice(data, 0, 4)), UnpackIBE(BSlice(data, 0, 4)))
            ELSE <<>>)

\* 4. ACCESS BITS (laundr.py 1378-1415) for a trailer index; no key of the
\* dump is in known_keys.  data[6] on a short block raises inside the try
TrailerRows(data) ==
    LET key_a == HexUpper(BSlice(data, 0, 6))
        acc == HexUpper(BSlice(data, 6, 9))
        key_b == HexUpper(BSlice(data, 10, 16))
    IN  <<Row("Key A", key_a), Row("Access Bits", acc), Row("Key B", key_b)>>
        \o (IF key_a = key_b
            THEN <<Row("Key Warning", "Both keys are identical")>> ELSE <<>>)
        \o (IF Len(data) < 9 THEN <<>>
            ELSE IF Xor8(data[7], data[9]) # 255
            THEN <<Row("Access Status", "WARNING: Invalid access bits")>>
            ELSE <<Row("Access Status", "Valid")>>)

\* 5. UID ANALYSIS (laundr.py 1417-1444) for block 0, on a block of at
\* least 8 bytes
Block0Rows(data) ==
    <<Row("BLOCK 0: MANUFACTURER", ""),
      Row("UID (Hex)", HexUpper(BSlice(data, 0, 4))),
      Row("UID (Decimal)", ""),
      Row("BCC (Checksum)", ""),
      Row("SAK", ""),
      Row("ATQA", ""),
      Row("Manufacturer Data", HexUpper(BSlice(data, 8, 16)))>>

\* "".join(chr(b) for b in data if 32 <= b <= 126).strip(), as byte values
AsciiClean(data) ==
    LET shown == SelectSeq(data, LAMBDA b : 32 <= b /\ b <= 126)
        solid == {i \in 1..Len(shown) : shown[i] # 32}
    IN  IF solid = {} THEN <<>>
        ELSE SubSeq(shown, CHOOSE i \in solid : \A j \in solid : i <= j,
                           CHOOSE i \in solid : \A j \in solid : j <= i)

\* the rules keyed on one block index (laundr.py 1446-1612), in the order
\* they run: 5b and 9 (block 1), 6 (block 2), 7 (block 9), 8 (block 12),
\* 10 (block 10), 11 (block 13).  Every indexing is behind a length test or
\* inside a try
BlockRows(b_id, data, operator_id) ==
    LET Provider == IF operator_id # 3
                    THEN <<Row("Detected Provider", "")>> ELSE <<>>
        Config1 ==
            <<Row("BLOCK 1: CARD CONFIG", "")>>
            \o (IF Len(data) >= 16
                THEN <<Row("Card Prefix", ""), Row("Version", ""),
                       Row("Issuer Code", ""), Row("System ID", ""),
                       Row("Config Flags", ""), Row("Checksum", "")>>
                ELSE <<>>)
            \o Provider
        Serial2 ==
            <<Row("BLOCK 2: SERIAL/BACKUP", "")>>
            \o (IF Len(data) >= 16
                THEN <<Row("Header", ""), Row("Card Type ID", ""),
                       Row("Card Serial#", ""),
                       Row("Balance Backup",
                           Money(UnpackH(BSlice(data, 9, 11)))),
                       Row("Flags", ""), Row("Checksum", "")>>
                ELSE <<>>)
            \o (IF operator_id # 3 /\ Len(data) >= 2
                   /\ BSlice(data, 0, 2) = <<1, 1>>
                THEN <<Row("Provider Signature", "")>> ELSE <<>>)
        Full9(v9, v9_inv) ==
            <<Row("Usages Left", "")>>
            \o (IF ~InverseI(v9, v9_inv) THEN <<>>
                ELSE <<Row("Full Value (32-bit)", "")>>
                     \o (IF Above50000(v9)
                         THEN <<Row("  -> As Currency", ""), Row("Theory", "")>>
                         ELSE <<>>)
                     \o <<Row("Data Structure", "")>>)
        Value12(v12, v12_inv) ==
            IF InverseI(v12, v12_inv) THEN <<Row("Value Block", "")>>
            ELSE IF v12.lo > 0 \/ v12.hi > 0
            THEN <<Row("Counter Values", "")>> ELSE <<>>
        Ids1 ==
            (IF Len(AsciiClean(data)) >= 2
             THEN <<Row("ASCII Content", "")>> ELSE <<>>)
            \o (IF Len(data) >= 16 /\ IsTimestamp(UnpackI(BSlice(data, 12, 16)))
                THEN <<Row("Card Creation Date", ""), Row("  -> Timestamp", "")>>
                ELSE <<>>)
            \o (IF Len(data) >= 8
                THEN <<Row("Config/Firmware", "")>> ELSE <<>>)
        Network10 ==
            <<Row("BLOCK 10: NETWORK ID", "")>>
            \o (IF Len(data) >= 16
                THEN <<Row("Card Prefix", ""), Row("Version", ""),
                       Row("Issuer Code", ""), Row("System Prefix", ""),
                       Row("Network ID", ""), Row("System Flags", "")>>
                     \o (IF BSlice(data, 10, 13) = <<78, 69, 84>>
                         THEN <<Row("Network Status", "")>> ELSE <<>>)
                ELSE <<>>)
        Site13 ==
            <<Row("BLOCK 13: SITE ID", "")>>
            \o (IF Len(data) >= 16
                THEN (IF Len(AsciiClean(BSlice(data, 0, 9))) >= 3
                      THEN <<Row("Site/Location Code", ""),
                             Row("Privacy Warning", "")>>
                      ELSE <<Row("Site Code (Raw)",
                                 HexUpper(BSlice(data, 0, 9)))>>)
                     \o <<Row("Version", "")>>
                     \o (IF \E i \in 12..16 : data[i] # 0
                         THEN <<Row("Reserved Data", "")>> ELSE <<>>)
                ELSE <<>>)
    IN  IF b_id = 1 THEN Config1 \o Ids1
        ELSE IF b_id = 2 THEN Serial2
        ELSE IF b_id = 9 /\ Len(data) >= 8
             THEN Full9(UnpackI(BSlice(data, 0, 4)), UnpackI(BSlice(data, 4, 8)))
        ELSE IF b_id = 12 /\ Len(data) >= 8
             THEN Value12(UnpackI(BSlice(data, 0, 4)), UnpackI(BSlice(data, 4, 8)))
        ELSE IF b_id = 10 THEN Network10
        ELSE IF b_id = 13 THEN Site13
        ELSE <<>>

\* 10. DETECT PATTERNS and 11. INTEGER INTERPRETATIONS (laundr.py 1614-1652)
PatternRows(b_id, data, ct) ==
    LET Integers32(uint32_le, uint32_be) ==
            (IF uint32_le.lo > 0 \/ uint32_le.hi > 0
             THEN <<Row("UInt32 (LE)", "")>> ELSE <<>>)
            \o (IF uint32_be # uint32_le
                   /\ (uint32_be.lo > 0 \/ uint32_be.hi > 0)
                THEN <<Row("UInt32 (BE)", "")>> ELSE <<>>)
            \o (IF uint32_le.hi >= 32768
                THEN <<Row("Int32 (LE)", "")>> ELSE <<>>)
    IN  (IF \A i \in 1..Len(data) : data[i] = 0
         THEN <<Row("Pattern", "All zeros (empty block)")>> ELSE <<>>)
        \o (IF \A i \in 1..Len(data) : data[i] = 255
            THEN <<Row("Pattern", "All 0xFF (erased/default)")>> ELSE <<>>)
        \o (IF Cardinality(Range(data)) = 1 /\ Len(data) > 4
            THEN <<Row("Pattern", "Repeating byte: " \o Hex02X(data[1]))>>
            ELSE <<>>)
        \o (IF Len(data) >= 4 /\ b_id \notin {0, 2, 4, 8, 9, 12}
               /\ ~is_sector_trailer(ct, b_id)
            THEN Integers32(UnpackI(BSlice(data, 0, 4)),
                            UnpackIBE(BSlice(data, 0, 4)))
            ELSE <<>>)

\* what a call of run_decoders leaves in decoder_tree and whether it raised.
\* Outside any try are is_sector_trailer(b_id), which adds 1 to b_id and so
\* raises TypeError when no block is selected, and the indexing of the
\* block 0 rule (data[4], data[5], uid[0..3], struct.unpack('<H', data[6:8])),
\* which raises on a block of fewer than 8 bytes
run_decoders(b_id, raw_str, blks, ct, operator_id) ==
    LET clean == replace(replace_all(raw_str, "??", "00"), " ", "")
        Done(rows) == [raised |-> FALSE, rows |-> rows]
        Raised(rows) == [raised |-> TRUE, rows |-> rows]
        Decode(data) ==
            LET Rest(head) ==
                    IF b_id = 0 /\ Len(data) < 8 THEN Raised(head)
                    ELSE Done(head
                              \o (IF b_id = 0 THEN Block0Rows(data) ELSE <<>>)
                              \o BlockRows(b_id, data, operator_id)
                              \o PatternRows(b_id, data, ct))
                Tail4(head) ==
                    IF b_id = None THEN Raised(head)
                    ELSE Rest(head \o (IF is_sector_trailer(ct, b_id)
                                       THEN TrailerRows(data) ELSE <<>>))
            IN  Tail4(SplitValueRows(b_id, data, blks) \o ValueBlockRows(data))
    IN  IF fromhex(clean) = NoBytes THEN Done(<<>>)
        ELSE Decode(fromhex(clean))

(***************************************************************************)
(* A bare HistoryManager driven by arbitrary calls.  The k-th call is      *)
(* recorded in ops with the entry it created (push) or returned (undo,     *)
(* redo).                                                                  *)
(***************************************************************************)
SnapshotNames == <<"A", "B", "C", "D", "E", "F", "G", "H", "I">>

\* the block map handed to the n-th push
Snapshot(n) == 0 :> SnapshotNames[n]

NumPushes(o) == Cardinality({i \in 1..Len(o) : o[i].op = "push"})

Call(op, val) == [op |-> op, val |-> val]

HInit ==
    /\ FreshApp
    /\ max_history \in 1..MaxCap
    /\ history = <<>>
    /\ current_index = -1
    /\ db = EmptyDb
    /\ ops = <<>>
    /\ discarded = {}
    /\ last = NoCall
    /\ loads = 0
    /\ edits = 0

HFrame == UNCHANGED <<appVars, max_history, db, last, loads, edits>>

HPush ==
    /\ Len(ops) < MaxOps
    /\ LET n == NumPushes(ops) + 1
           entry == HistoryEntry(Snapshot(n), SnapshotNames[n], n)
           r == push(history, current_index, max_history, entry)
       IN  /\ history' = r.history
           /\ current_index' = r.current_index
           /\ discarded' = discarded \cup
                  {history[i] : i \in (current_index + 2)..Len(history)}
           /\ ops' = Append(ops, Call("push", entry))
    /\ HFrame

HUndo ==
    /\ Len(ops) < MaxOps
    /\ LET r == undo(history, current_index)
       IN  /\ current_index' = r.current_index
           /\ ops' = Append(ops, Call("undo", r.ret))
    /\ UNCHANGED <<history, discarded>>
    /\ HFrame

HRedo ==
    /\ Len(ops) < MaxOps
    /\ LET r == redo(history, current_index)
       IN  /\ current_index' = r.current_index
           /\ ops' = Append(ops, Call("redo", r.ret))
    /\ UNCHANGED <<history, discarded>>
    /\ HFrame

HClear ==
    /\ Len(ops) < MaxOps
    /\ history' = clear.history
    /\ current_index' = clear.current_index
    /\ ops' = Append(ops, Call("clear", NoEntry))
    /\ UNCHANGED discarded
    /\ HFrame

HNext == HPush \/ HUndo \/ HRedo \/ HClear

SpecHistory == HInit /\ [][HNext]_vars

(***************************************************************************)
(* The application driven by its handlers.  The files offered to load_file *)
(* and the texts typed into the entry fields are drawn from small sets.    *)
(***************************************************************************)
\* a card of the CSC layout: identity block, transaction record, a trailer,
\* balance 0.00 with counter 5 in block 4 and its mirror in block 8
FileCSC ==
    <<"Filetype: Flipper NFC device",
      "Version: 4",
      "UID: 2B B9 91 B5",
      "# Mifare Classic blocks",
      "Block 0: 2B B9 91 B5 B6 08 04 00 03 8F 6C 2A 4E 8C 7F 90",
      "Block 2: 01 01 C5 CB AB 02 00 00 00 7E 04 01 00 00 00 DC",
      "Block 3: A0 A1 A2 A3 A4 A5 78 77 88 C1 FF FF FF FF FF FF",
      "Block 4: 00 00 05 00 FF FF FA FF 00 00 05 00 04 FB 04 FB",
      "Block 8: 00 00 05 00 FF FF FA FF 00 00 05 00 04 FB 04 FB">>

\* a dump whose only value block is block 2 (balance 10.00)
FileRecordOnly ==
    <<"Filetype: Flipper NFC device",
      "Block 2: E8 03 00 00 17 FC FF FF E8 03 00 00 04 FB 04 FB">>

\* a dump whose only value pattern sits in block 0 (counter inverse wrong)
FileBlockZero ==
    <<"Filetype: Flipper NFC device",
      "Block 0: E8 03 01 00 17 FC 00 00 E8 03 01 00 04 FB 04 FB",
      "Block 2: 01 01 00 00 00 00 00 00 00 00 00 00 00 00 00 00">>

\* a partial dump: unknown bytes in block 4, balance 1.50 in lower-case hex
\* in block 8, a transaction record with saturated counters and a wrong
\* checksum
FilePartial ==
    <<"Filetype: Flipper NFC device",
      "",
      "  # partial read",
      "Block 2: 01 01 FF FF FF FF 00 00 00 7E 04 01 00 00 00 00",
      "Block 4: ?? ?? 00 00 ?? ?? FF FF 96 00 00 00 04 FB 04 FB",
      "Block  8 :  96 00 00 00 69 ff ff ff 96 00 00 00 04 fb 04 fb",
      "Block 64"  >>

\* a text with no block line
FileNoBlocks ==
    <<"Filetype: Flipper NFC device",
      "Version: 4",
      "Blocks: none",
      "Block 4:">>

\* a dump of a 4K card: balance 10.00 in block 4 and a data block in the
\* first sixteen-block sector
FileLarge ==
    <<"Filetype: Flipper NFC device",
      "Mifare Classic type: 4K",
      "Block 4: E8 03 00 00 17 FC FF FF E8 03 00 00 04 FB 04 FB",
      "Block 130: 4E 45 54 00 00 00 00 00 00 00 00 00 00 00 00 00">>

\* a dump with balance 10.00 and counter 65535 in block 4 and a fully read
\* block 8 that is no value block
FileNoMirror ==
    <<"Filetype: Flipper NFC device",
      "Block 4: E8 03 FF FF 17 FC 00 00 E8 03 FF FF 04 FB 04 FB",
      "Block 8: E8 03 00 00 17 FD FF FF E8 03 00 00 04 FB 04 FB">>

Files ==
    {FileCSC, FileRecordOnly, FileBlockZero, FilePartial, FileNoBlocks,
     FileLarge, FileNoMirror}

Modes == {"normal", "legit", "hack"}

\* values of int(float(text) * 100) for the texts typed into the balance field
Amounts == {-1, 0, 1000, 1150, 65536}

\* texts typed into the UID field: a 4-byte UID, a 7-byte UID, a text that
\* is not hex
UidTexts == {"de:ad:be:ef", "04 A1 B2 C3 D4 E5 F6", "XYZW0102"}

\* texts typed into the raw hex field
RawTexts == {"", "e803 3 ?? zz"}

\* rows of the tree the model clicks on
Selectable == {4}

\* the database shipped with the application: the CSC signature in block 2
SeedDb ==
    [signatures |->
        <<Signature(1, "CSC Service Works", 2, 0, 2, <<1, 1>>, "exact", 95)>>,
     balance_blocks |-> (1 :> <<4, 8>>)]

\* what load_file leaves behind for a file (laundr.py 464-541): blocks and
\* headers are replaced before the file is read; the rest only if the file
\* has a block line
load_file(lines, database) ==
    LET p == Parse(lines)
        ct == CardTypeOf(p.blocks)
        scan == Scan(p.blocks, ct, database)
    IN  IF DOMAIN p.blocks = {}
        THEN [loaded |-> FALSE, headers |-> p.headers, blocks |-> p.blocks]
        ELSE [loaded |-> TRUE, headers |-> p.headers, blocks |-> p.blocks,
              card_type |-> ct, operator |-> scan.operator,
              balance_block |-> scan.balance_block,
              raised |-> RefreshRaises(p.blocks, scan.balance_block)]

\* load_file on each file offered, with the shipped database
Images == [file \in Files |-> load_file(file, SeedDb)]

Init ==
    /\ FreshApp
    /\ max_history = AppMaxHistory
    /\ history = <<>>
    /\ current_index = -1
    /\ db = SeedDb
    /\ ops = <<>>
    /\ discarded = {}
    /\ last = NoCall
    /\ loads = 0
    /\ edits = 0

Clock == loads + edits + 1

\* a push that stores the live block map itself instead of a copy: every
\* entry made from that map shows the latest edit
HistoryPush_shared(blks, description) ==
    LET shared == [i \in 1..Len(history) |-> [history[i] EXCEPT !.blocks = blks]]
        r == push(shared, current_index, max_history,
                  HistoryEntry(blks, description, Clock))
    IN  /\ history' = r.history
        /\ current_index' = r.current_index

HistoryPush(blks, description) ==
    LET r == push(history, current_index, max_history,
                  HistoryEntry(blks, description, Clock))
    IN  /\ history' = r.history
        /\ current_index' = r.current_index

NoHistoryChange == UNCHANGED <<history, current_index>>

Fixed == UNCHANGED <<max_history, db, ops, discarded>>

\* load_file followed by run_full_scan; db is SeedDb in every state of Spec
LoadFile(file) ==
    /\ loads + edits < MaxSteps
    /\ loads' = loads + 1
    /\ LET Becomes(r) ==
               /\ blocks' = r.blocks
               /\ headers' = r.headers
               /\ IF ~r.loaded
                  THEN /\ UNCHANGED <<card_type, detected_balance_block,
                                      detected_operator>>
                       /\ NoHistoryChange
                       /\ last' = [op |-> "load_file", file |-> file,
                                   result |-> "error", scanned |-> FALSE]
                  ELSE /\ card_type' = r.card_type
                       /\ detected_operator' = r.operator
                       /\ detected_balance_block' = r.balance_block
                       /\ HistoryPush(r.blocks, "Loaded")
                       /\ last' = [op |-> "load_file", file |-> file,
                                   result |-> IF r.raised THEN "error" ELSE "ok",
                                   scanned |-> TRUE]
       IN  Becomes(Images[file])
    /\ UNCHANGED <<current_block, edits>>
    /\ Fixed

\* update_balance with the amount typed and the mode selected
UpdateBalance ==
    /\ loads + edits < MaxSteps
    /\ edits' = edits + 1
    /\ LET Becomes(cents, mode, r) ==
               /\ blocks' = r.blocks
               /\ IF r.pushed THEN HistoryPush(r.blocks, "Updated balance")
                  ELSE NoHistoryChange
               /\ last' = [op |-> "update_balance", cents |-> cents,
                           mode |-> mode, result |-> r.result,
                           wrote |-> r.wrote, mirror |-> r.mirror,
                           aux |-> r.aux, old_cents |-> r.old_cents,
                           current_counter |-> r.current_counter,
                           new_counter |-> r.new_counter,
                           new_block |-> r.new_block,
                           old_blocks |-> blocks]
           Given(reads) ==
               \E cents \in Amounts, mode \in Modes :
                   Becomes(cents, mode,
                           update_balance(blocks, detected_balance_block,
                                          reads, cents, mode))
       IN  Given(BalanceReads(blocks, detected_balance_block))
    /\ UNCHANGED <<headers, card_type, detected_balance_block,
                   detected_operator, current_block, loads>>
    /\ Fixed

\* on_block_select: a click on a row of the tree
SelectBlock(b_id) ==
    /\ detected_balance_block # None
    /\ b_id < Limit(card_type)
    /\ current_block' = b_id
    /\ UNCHANGED <<blocks, headers, card_type, detected_balance_block,
                   detected_operator, last, loads, edits>>
    /\ NoHistoryChange
    /\ Fixed

\* commit_raw_changes with the text of the raw hex field
CommitRaw(raw_hex) ==
    /\ current_block # None
    /\ loads + edits < MaxSteps
    /\ edits' = edits + 1
    /\ LET written == Put(blocks, current_block, Normalize(raw_hex))
       IN  /\ blocks' = written
           /\ HistoryPush(written, "Edited Block")
    /\ last' = [op |-> "commit_raw_changes", raw_hex |-> raw_hex,
                block |-> current_block]
    /\ UNCHANGED <<headers, card_type, detected_balance_block,
                   detected_operator, current_block, loads>>
    /\ Fixed

\* whether the calls undo and redo make after restoring a block map raise:
\* refresh_ui, then run_decoders on the text of the selected block
\* (laundr.py 1703-1704, 1719-1720)
RestoredRaises(blks) ==
    \/ RefreshRaises(blks, detected_balance_block)
    \/ run_decoders(current_block,
                    IF current_block \in DOMAIN blks THEN blks[current_block]
                    ELSE "",
                    blks, card_type, detected_operator[1]).raised

\* the undo handler of the application: nothing happens without an entry
Undo ==
    /\ LET Restore(r) ==
               /\ current_index' = r.current_index
               /\ blocks' = IF r.ret = NoEntry THEN blocks ELSE r.ret.blocks
               /\ last' = IF r.ret = NoEntry THEN last
                          ELSE [op |-> "undo",
                                raised |-> RestoredRaises(r.ret.blocks)]
       IN  Restore(undo(history, current_index))
    /\ UNCHANGED <<history, headers, card_type, detected_balance_block,
                   detected_operator, current_block, loads, edits>>
    /\ Fixed

\* the redo handler of the application: nothing happens without an entry
Redo ==
    /\ LET Restore(r) ==
               /\ current_index' = r.current_index
               /\ blocks' = IF r.ret = NoEntry THEN blocks ELSE r.ret.blocks
               /\ last' = IF r.ret = NoEntry THEN last
                          ELSE [op |-> "redo",
                                raised |-> RestoredRaises(r.ret.blocks)]
       IN  Restore(redo(history, current_index))
    /\ UNCHANGED <<history, headers, card_type, detected_balance_block,
                   detected_operator, current_block, loads, edits>>
    /\ Fixed

\* the access-bit reset handler
FixAccessBits ==
    /\ loads + edits < MaxSteps
    /\ edits' = edits + 1
    /\ blocks' = fix_access_bits(blocks, card_type)
    /\ last' = [op |-> "fix_access_bits"]
    /\ UNCHANGED <<headers, card_type, detected_balance_block,
                   detected_operator, current_block, loads>>
    /\ NoHistoryChange
    /\ Fixed

\* the UID dialog applied with the text and the checkbox as given
EditUid(uid_text, allow_diff_len) ==
    /\ loads + edits < MaxSteps
    /\ edits' = edits + 1
    /\ LET Becomes(r) ==
               /\ blocks' = r.blocks
               /\ headers' = r.headers
               /\ IF r.result = "ok"
                  THEN HistoryPush(r.blocks, "Changed UID")
                  ELSE NoHistoryChange
               /\ last' = [op |-> "edit_uid", uid_text |-> uid_text,
                           result |-> r.result]
       IN  Becomes(edit_uid(blocks, headers, uid_text, allow_diff_len))
    /\ UNCHANGED <<card_type, detected_balance_block, detected_operator,
                   current_block, loads>>
    /\ Fixed

\* save_file: the lines written to the chosen path
SaveFile ==
    /\ last' = [op |-> "save_file",
                lines |-> Serialize(headers, blocks, card_type)]
    /\ UNCHANGED <<appVars, loads, edits>>
    /\ NoHistoryChange
    /\ Fixed

Next ==
    \/ \E file \in Files : LoadFile(file)
    \/ UpdateBalance
    \/ \E b_id \in Selectable : SelectBlock(b_id)
    \/ \E raw_hex \in RawTexts : CommitRaw(raw_hex)
    \/ Undo
    \/ Redo
    \/ FixAccessBits
    \/ \E uid_text \in UidTexts, allow_diff_len \in BOOLEAN :
          EditUid(uid_text, allow_diff_len)
    \/ SaveFile

Spec == Init /\ [][Next]_vars

(***************************************************************************)
(* The application with a card already loaded: the state load_file leaves  *)
(* for the CSC dump, the counters counting the handlers run from there on, *)
(* and the handlers that work on the loaded image.                         *)
(***************************************************************************)
LoadedInit ==
    /\ LET Loaded(r) ==
               /\ blocks = r.blocks
               /\ headers = r.headers
               /\ card_type = r.card_type
               /\ detected_balance_block = r.balance_block
               /\ detected_operator = r.operator
               /\ history = <<HistoryEntry(r.blocks, "Loaded", 0)>>
       IN  Loaded(Images[FileCSC])
    /\ current_block = None
    /\ max_history = AppMaxHistory
    /\ current_index = 0
    /\ db = SeedDb
    /\ ops = <<>>
    /\ discarded = {}
    /\ last = NoCall
    /\ loads = 0
    /\ edits = 0

LoadedNext ==
    \/ UpdateBalance
    \/ \E b_id \in Selectable : SelectBlock(b_id)
    \/ \E raw_hex \in RawTexts : CommitRaw(raw_hex)
    \/ Undo
    \/ Redo
    \/ FixAccessBits
    \/ \E uid_text \in UidTexts, allow_diff_len \in BOOLEAN :
          EditUid(uid_text, allow_diff_len)
    \/ SaveFile

SpecLoaded == LoadedInit /\ [][LoadedNext]_vars

(***************************************************************************)
(* The classifier run on its own: STEP 1 of run_full_scan                  *)
(* (src/laundr.py 729-741) with any confidence-descending signature list   *)
(* the database may return.                                                *)
(***************************************************************************)
\* rows of operator_signatures joined with operators
SigExact == Signature(1, "CSC Service Works", 2, 0, 2, <<1, 1>>, "exact", 95)

SigAscii == Signature(2, "Wash Co", 1, 0, 3, <<67, 83, 67>>, "ascii", 90)

SigPastEnd == Signature(4, "Past End", 2, 15, 2, <<220, 0>>, "exact", 90)

SigUid == Signature(5, "Uid Match", 0, 0, 1, <<43>>, "exact", 50)

SigTail == Signature(6, "Tail Match", 2, 14, 2, <<0, 220>>, "exact", 50)

SigPool == {SigExact, SigAscii, SigPastEnd, SigUid, SigTail}

\* the lists of at most MaxSigs distinct rows in ORDER BY confidence DESC
SigLists ==
    UNION {{l \in [1..n -> SigPool] :
               /\ \A i, j \in 1..n : i < j => l[i] # l[j]
               /\ \A i \in 1..(n - 1) : l[i].confidence >= l[i + 1].confidence}
           : n \in 0..MaxSigs}

\* block maps handed to the classifier: text in lower case in block 1 and
\* the CSC record in block 2; the record alone; the text alone, with an
\* unknown byte; block 0 alone; a block 2 of one byte
CardTextAndRecord ==
    0 :> "2B B9 91 B5 B6 08 04 00 03 8F 6C 2A 4E 8C 7F 90" @@
    1 :> "63 73 63 00 00 00 00 00 00 00 00 00 00 00 00 00" @@
    2 :> "01 01 C5 CB AB 02 00 00 00 7E 04 01 00 00 00 DC"

CardRecord == 2 :> "01 01 C5 CB AB 02 00 00 00 7E 04 01 00 00 00 DC"

CardText == 1 :> "43 53 63 ?? 00 00 00 00 00 00 00 00 00 00 00 00"

CardUid == 0 :> "2B B9 91 B5 B6 08 04 00 03 8F 6C 2A 4E 8C 7F 90"

CardShort == 2 :> "01"

Cards == {CardTextAndRecord, CardRecord, CardText, CardUid, CardShort}

DInit ==
    /\ FreshApp
    /\ max_history = AppMaxHistory
    /\ history = <<>>
    /\ current_index = -1
    /\ db \in {[signatures |-> l, balance_blocks |-> <<>>] : l \in SigLists}
    /\ ops = <<>>
    /\ discarded = {}
    /\ last = NoCall
    /\ loads = 0
    /\ edits = 0

\* the classifier called on the bytes of a block map
DetectOperator(blks) ==
    /\ blocks' = blks
    /\ detected_operator' = detect_operator(BlocksBytes(blks), db.signatures)
    /\ last' = [op |-> "detect_operator"]
    /\ UNCHANGED <<headers, card_type, detected_balance_block, current_block,
                   loads, edits>>
    /\ NoHistoryChange
    /\ Fixed

DNext == \E blks \in Cards : DetectOperator(blks)

SpecDetect == DInit /\ [][DNext]_vars

(***************************************************************************)
(* Force Re-Scan: run_full_scan on the image in memory                     *)
(* (src/laundr.py 262, 725-830).                                           *)
(***************************************************************************)
\* texts of a scanned data block: a value block holding 0, a value block
\* holding 10.00 with both inverses right, the same with a wrong counter
\* inverse
ScanTexts ==
    {"00 00 00 00 FF FF FF FF 00 00 00 00 04 FB 04 FB",
     "E8 03 00 00 17 FC FF FF E8 03 00 00 04 FB 04 FB",
     "E8 03 01 00 17 FC 00 00 E8 03 01 00 04 FB 04 FB"}

\* the images scanned: the CSC record in block 2 and any of the texts in
\* blocks 1, 4 and 8, each of which may be missing
ScanCards ==
    {CardRecord @@ c : c \in UNION {[d -> ScanTexts] : d \in SUBSET {1, 4, 8}}}

\* the rows get_balance_blocks returns for the operator of the record
ScanLists == {<<>>, <<4, 8>>, <<8, 4>>, <<8>>}

ScanInit ==
    /\ blocks \in ScanCards
    /\ db \in {[signatures |-> SeedDb.signatures, balance_blocks |-> (1 :> l)] :
                 l \in ScanLists}
    /\ headers = <<>>
    /\ card_type = "1K"
    /\ detected_balance_block = None
    /\ detected_operator = UnknownOperator
    /\ current_block = None
    /\ max_history = AppMaxHistory
    /\ history = <<>>
    /\ current_index = -1
    /\ ops = <<>>
    /\ discarded = {}
    /\ last = NoCall
    /\ loads = 0
    /\ edits = 0

\* run_full_scan from the Tools menu
RunFullScan ==
    /\ loads + edits < MaxSteps
    /\ loads' = loads + 1
    /\ LET Found(scan) ==
               /\ detected_operator' = scan.operator
               /\ detected_balance_block' = scan.balance_block
               /\ last' = [op |-> "run_full_scan",
                           raised |-> RefreshRaises(blocks, scan.balance_block)]
       IN  Found(Scan(blocks, card_type, db))
    /\ HistoryPush(blocks, "Loaded")
    /\ UNCHANGED <<blocks, headers, card_type, current_block, edits>>
    /\ Fixed

ScanNext == RunFullScan

SpecScan == ScanInit /\ [][ScanNext]_vars

(***************************************************************************)
(* The decoder panel on its own: a block is selected and the text of the   *)
(* hex entry is decoded (on_block_select, on_hex_edit, and the call made   *)
(* by undo and redo with the current selection, which may be None).        *)
(***************************************************************************)
\* texts of the hex entry: value 12.34 with both inverses valid, with the
\* value inverse only, with the counter inverse only, with neither; value
\* 600.00 with both inverses valid; a block with unknown bytes; the default
\* trailer and data blocks; no bytes, two bytes, a text that is not hex
DecoderTexts ==
    {"D2 04 00 00 2D FB FF FF D2 04 00 00 04 FB 04 FB",
     "D2 04 01 00 2D FB FF FF D2 04 01 00 04 FB 04 FB",
     "D2 04 00 00 00 00 FF FF D2 04 00 00 04 FB 04 FB",
     "D2 04 01 00 00 00 00 00 D2 04 01 00 04 FB 04 FB",
     "60 EA 00 00 9F 15 FF FF 60 EA 00 00 04 FB 04 FB",
     "?? ?? 00 00 FF FF FF FF ?? ?? 00 00 04 FB 04 FB",
     DefaultTrailer, DefaultData, "", "E8 03", "e803 3 ?? zz"}

DecoderBlocks == {None, 0, 1, 2, 3, 4, 8, 9, 10, 12, 13}

\* the block maps the mirror check of the split-value rule reads
DecoderImages ==
    {<<>>,
     (4 :> "D2 04 00 00 2D FB FF FF D2 04 00 00 04 FB 04 FB")
        @@ (8 :> "D2 04 00 00 2D FB FF FF D2 04 00 00 04 FB 04 FB"),
     (4 :> "D2 04 00 00 2D FB FF FF D2 04 00 00 04 FB 04 FB")
        @@ (8 :> "60 EA 00 00 9F 15 FF FF 60 EA 00 00 04 FB 04 FB")}

DecInit ==
    /\ blocks \in DecoderImages
    /\ headers = <<>>
    /\ card_type = "1K"
    /\ detected_balance_block = None
    /\ detected_operator \in {UnknownOperator, <<1, "CSC Service Works", 95>>}
    /\ current_block = None
    /\ max_history = AppMaxHistory
    /\ history = <<>>
    /\ current_index = -1
    /\ db = SeedDb
    /\ ops = <<>>
    /\ discarded = {}
    /\ last = NoCall
    /\ loads = 0
    /\ edits = 0

RunDecoders(b_id, raw_str) ==
    /\ LET Shown(r) ==
               last' = [op |-> "run_decoders", b_id |-> b_id,
                        raw_str |-> raw_str, raised |-> r.raised,
                        rows |-> r.rows]
       IN  Shown(run_decoders(b_id, raw_str, blocks, card_type,
                              detected_operator[1]))
    /\ current_block' = b_id
    /\ UNCHANGED <<blocks, headers, card_type, detected_balance_block,
                   detected_operator, loads, edits>>
    /\ NoHistoryChange
    /\ Fixed

DecNext ==
    \E b_id \in DecoderBlocks, raw_str \in DecoderTexts :
        RunDecoders(b_id, raw_str)

SpecDecode == DecInit /\ [][DecNext]_vars

(***************************************************************************)
(* The layout rule asked about every block index of a card of either size. *)
(***************************************************************************)
CardTypes == {"1K", "4K"}

\* a card of either size has been loaded
LInit ==
    /\ blocks = <<>>
    /\ headers = <<>>
    /\ card_type \in CardTypes
    /\ detected_balance_block = None
    /\ detected_operator = UnknownOperator
    /\ current_block = None
    /\ max_history = AppMaxHistory
    /\ history = <<>>
    /\ current_index = -1
    /\ db = EmptyDb
    /\ ops = <<>>
    /\ discarded = {}
    /\ last = NoCall
    /\ loads = 0
    /\ edits = 0

IsSectorTrailer(b_id) ==
    /\ last' = [op |-> "is_sector_trailer", b_id |-> b_id,
                result |-> is_sector_trailer(card_type, b_id)]
    /\ UNCHANGED appVars
    /\ UNCHANGED <<loads, edits>>
    /\ NoHistoryChange
    /\ Fixed

LNext == \E b_id \in 0..(Limit(card_type) - 1) : IsSectorTrailer(b_id)

SpecLayout == LInit /\ [][LNext]_vars

(***************************************************************************)
(* Properties of the HistoryManager.                                       *)
(***************************************************************************)
OpNames == [i \in 1..Len(ops) |-> ops[i].op]

RECURSIVE CountRun(_, _, _)
\* the number of consecutive calls named op in o from position i on
CountRun(o, i, op) ==
    IF i <= Len(o) /\ o[i].op = op THEN 1 + CountRun(o, i + 1, op) ELSE 0

NPush == CountRun(ops, 1, "push")

NUndo == CountRun(ops, NPush + 1, "undo")

NRedo == CountRun(ops, NPush + NUndo + 1, "redo")

\* the calls so far are N pushes, then at most N-1 undos, then (only after
\* all N-1 undos) at most N-1 redos
PushUndoRedo ==
    /\ NPush >= 1
    /\ NPush + NUndo + NRedo = Len(ops)
    /\ NUndo <= NPush - 1
    /\ NRedo <= NPush - 1
    /\ NRedo > 0 => NUndo = NPush - 1

Symmetric ==
    /\ \A k \in 1..NUndo : ops[NPush + k].val = ops[NPush - k].val
    /\ \A k \in 1..NRedo : ops[NPush + NUndo + k].val = ops[k + 1].val
    /\ (NUndo = NPush - 1 /\ NRedo = NPush - 1) =>
          /\ current_index = Len(history) - 1
          /\ current(history, current_index) = ops[NPush].val
          /\ history = [i \in 1..Len(history) |->
                           ops[NPush - Len(history) + i].val]

\* C3 as stated: N pushes onto an empty manager, then N-1 undos and N-1
\* redos: every undo and redo succeeds, undo k returns the (N-k)-th pushed
\* snapshot, redo k the (k+1)-th, and the run ends on the last pushed entry.
C3_AnyN == PushUndoRedo => Symmetric

\* C3 amended: the same, for N pushes that fit the capacity (N <= max_history),
\* so that the log then holds all N pushed entries.
C3_HistorySymmetry ==
    (PushUndoRedo /\ NPush <= max_history) =>
        (Symmetric /\ (NRedo = NPush - 1 => Len(history) = NPush))

C3_Witness ==
    /\ PushUndoRedo
    /\ NPush = 3 /\ NUndo = 2 /\ NRedo = 2
    /\ max_history = 3
    /\ ops[5].val.description = "A"
    /\ ops[7].val.description = "C"

IsPushStep == Len(ops') = Len(ops) + 1 /\ ops'[Len(ops')].op = "push"

Pushed == ops'[Len(ops')].val

LastRet == IF ops # <<>> /\ ops[Len(ops)].op \in {"undo", "redo"}
           THEN ops[Len(ops)].val ELSE NoEntry

\* C4: a push made while the cursor is below the tail leaves exactly the
\* entries up to the old cursor followed by the new entry, with redo
\* unavailable; no entry discarded that way is in the log or returned by a
\* later undo or redo.
C4_LinearHistory ==
    /\ [][(IsPushStep /\ current_index < Len(history) - 1) =>
            /\ history' = Append(SubSeq(history, 1, current_index + 1), Pushed)
            /\ ~can_redo(history', current_index')
            /\ redo(history', current_index').ret = NoEntry]_vars
    /\ [](\A e \in discarded : e \notin Range(history) /\ LastRet # e)

C4_Witness ==
    /\ Len(ops) >= 4
    /\ ops[Len(ops)].op = "undo"
    /\ ops[Len(ops)].val # NoEntry
    /\ ops[Len(ops) - 1].op = "push"
    /\ ops[Len(ops) - 2].op = "undo"
    /\ ops[Len(ops) - 2].val # NoEntry
    /\ discarded # {}

Descriptions(h) == [i \in 1..Len(h) |-> h[i].description]

ScenarioD ==
    max_history = 3 =>
        /\ OpNames = <<"push", "push", "push", "push">> =>
              Descriptions(history) = <<"B", "C", "D">>
        /\ OpNames = <<"push", "push", "push", "push", "undo", "undo">> =>
              current(history, current_index).description = "B"
        /\ OpNames = <<"push", "push", "push", "push", "undo", "undo", "push">> =>
              /\ Descriptions(history) = <<"B", "E">>
              /\ current(history, current_index).description = "E"

\* C5: the log never holds more than max_history entries; a push that would
\* exceed the capacity drops exactly the oldest entry and keeps the others in
\* order; with capacity 3, push A B C D leaves [B, C, D], two undos make B
\* current, and push E leaves [B, E] with E current.
C5_BoundedLog ==
    /\ [](Len(history) <= max_history)
    /\ [][(IsPushStep /\ current_index + 2 > max_history) =>
            history' = Append(Tail(SubSeq(history, 1, current_index + 1)), Pushed)]_vars
    /\ []ScenarioD

C5_Witness ==
    /\ max_history = 3
    /\ OpNames = <<"push", "push", "push", "push", "undo", "undo", "push">>
    /\ Len(history) = 2

(***************************************************************************)
(* Properties of update_balance.  last holds the arguments, the locals and *)
(* the outcome of the latest call.                                         *)
(***************************************************************************)
\* the value and counter fields of block b pass the inverse check
InverseValid(blks, b) ==
    LET d == get_bytes_at(blks, b, 0, 8)
    IN  /\ Truthy(d) /\ Len(d) = 8
        /\ Xor16(UnpackH(BSlice(d, 0, 2)), UnpackH(BSlice(d, 4, 6))) = 65535
        /\ Xor16(UnpackH(BSlice(d, 2, 4)), UnpackH(BSlice(d, 6, 8))) = 65535

\* the latest handler was update_balance and it showed its success message
Accepted == last.op = "update_balance" /\ last.result = "ok"

\* C1: after an accepted set-balance, for every active index, the active
\* block as it stands in the block map has value XOR inverse = 0xFFFF and
\* counter XOR inverse = 0xFFFF, and so has the mirror when it was rewritten
C1_InverseLaw ==
    (Accepted /\ detected_balance_block # None) =>
        /\ InverseValid(blocks, detected_balance_block)
        /\ last.mirror =>
               InverseValid(blocks, BackupBlock(detected_balance_block))

\* the 16 bytes of the transaction record
RecordBytes(blks) == get_bytes_at(blks, 2, 0, 16)

\* the latest update_balance ran the record update and block 2 differs from
\* what it was when that update started
Rewrote ==
    /\ last.op = "update_balance" /\ last.aux
    /\ blocks[2] # (IF detected_balance_block = 2 THEN HexStr(last.new_block)
                    ELSE last.old_blocks[2])

\* C2: after a set-balance in legit mode that rewrites block 2, the XOR of
\* the 16 bytes of block 2 is 0, whatever the record was before
C2_RecordChecksum ==
    Rewrote =>
        /\ Truthy(RecordBytes(blocks)) /\ Len(RecordBytes(blocks)) = 16
        /\ XorAll(RecordBytes(blocks)) = 0

\* a rewritten record whose bytes XORed to a nonzero value before the call
C2_Witness ==
    /\ Rewrote
    /\ detected_balance_block # 2
    /\ XorAll(RecordBytes(last.old_blocks)) # 0
    /\ XorAll(RecordBytes(blocks)) = 0

\* C8: a set-balance whose amount is below 0 or above 65535 ends with the
\* range error (with the error of the balance read when the stored balance
\* cannot be decoded, which comes first) and changes neither a block nor the
\* history nor its cursor nor the rest of the image
C8_RejectUnchanged ==
    [][(/\ last'.op = "update_balance"
        /\ edits' = edits + 1
        /\ (last'.cents < 0 \/ last'.cents > 65535))
       => /\ last'.result = (IF last'.old_cents = None THEN "error"
                             ELSE "rejected")
          /\ blocks' = blocks
          /\ history' = history
          /\ current_index' = current_index
          /\ UNCHANGED <<headers, card_type, detected_balance_block,
                         detected_operator>>]_vars

\* an amount above the range rejected on a loaded card
C8_Witness ==
    /\ last.op = "update_balance"
    /\ last.cents = 65536
    /\ last.result = "rejected"
    /\ history # <<>>
    /\ blocks = last.old_blocks

\* the counter field of the block update_balance built
WrittenCounter == UnpackH(BSlice(last.new_block, 2, 4))

C10_RefillTotal ==
    (/\ Accepted
     /\ last.mode = "legit"
     /\ last.cents # last.old_cents
     /\ 2 \in DOMAIN last.old_blocks)
    => get_bytes_at(blocks, 2, 9, 2) = PackH(last.cents)

(***************************************************************************)
(* Properties of the dump codec.                                           *)
(***************************************************************************)
\* serialize(parse(lines)): the lines save_file writes for the image
\* load_file builds from lines
Reserialized(lines) ==
    LET image == Load(lines)
    IN  Serialize(image.headers, image.blocks, image.card_type)

\* C6: for every image the handlers can reach, the lines save_file writes
\* are reproduced line for line by loading them and saving again
C6_RoundTrip ==
    last.op = "save_file" => Reserialized(last.lines) = last.lines

(***************************************************************************)
(* Properties of the classifier.                                           *)
(***************************************************************************)
\* row i of the list applies to the block bytes: its block is present, its
\* slice fits inside the block, and the slice equals the value byte for byte
\* (exact) or as decoded ASCII text without regard to case (ascii)
RowApplies(i, blocks_bytes) ==
    LET row == db.signatures[i]
    IN  /\ row.block_number \in DOMAIN blocks_bytes
        /\ row.byte_offset + row.byte_length
               <= Len(blocks_bytes[row.block_number])
        /\ LET slice == [k \in 1..row.byte_length |->
                            blocks_bytes[row.block_number][row.byte_offset + k]]
           IN  IF row.signature_type = "exact"
               THEN slice = row.signature_value
               ELSE UpperAscii(DecodeAscii(slice))
                        = UpperAscii(DecodeAscii(row.signature_value))

\* C7: detect_operator returns the id, name and confidence of the first row
\* in list order that applies, whatever later rows apply, and (3, Unknown, 0)
\* when no row applies
C7_FirstMatch ==
    last.op = "detect_operator" =>
        LET bb == BlocksBytes(blocks)
            applying == {i \in 1..Len(db.signatures) : RowApplies(i, bb)}
        IN  IF applying = {}
            THEN detected_operator = UnknownOperator
            ELSE \E i \in applying :
                    /\ \A j \in applying : i <= j
                    /\ detected_operator =
                          <<db.signatures[i].operator_id,
                            db.signatures[i].operator_name,
                            db.signatures[i].confidence>>

\* the first row wins although a later row of lower confidence matches a
\* different block
C7_Witness ==
    /\ last.op = "detect_operator"
    /\ Len(db.signatures) >= 2
    /\ RowApplies(1, BlocksBytes(blocks))
    /\ RowApplies(2, BlocksBytes(blocks))
    /\ db.signatures[2].confidence < db.signatures[1].confidence
    /\ db.signatures[2].block_number # db.signatures[1].block_number
    /\ detected_operator[1] = db.signatures[1].operator_id

(***************************************************************************)
(* Properties of the layout rule.                                          *)
(***************************************************************************)
\* the trailer positions of a card, counted out sector by sector: sectors of
\* four blocks up to block 127, sectors of sixteen blocks from block 128 on
Trailers(ct) ==
    IF ct = "1K" THEN {4 * k + 3 : k \in 0..15}
    ELSE {4 * k + 3 : k \in 0..31} \cup {128 + 16 * k + 15 : k \in 0..7}

\* C11: is_sector_trailer(index) is true exactly at the last block of each
\* sector: every fourth block of the small format and of the first 128 blocks
\* of the large format, every sixteenth block from 128 on; 3, 7, 11 are
\* trailers and 4 is not (small), 127 and 143 are and 144 is not (large)
C11_TrailerLayout ==
    last.op = "is_sector_trailer" =>
        /\ last.result = (last.b_id \in Trailers(card_type))
        /\ (card_type = "1K" /\ last.b_id \in {3, 7, 11}) => last.result
        /\ (card_type = "1K" /\ last.b_id = 4) => ~last.result
        /\ (card_type = "4K" /\ last.b_id \in {127, 143}) => last.result
        /\ (card_type = "4K" /\ last.b_id = 144) => ~last.result

\* the rule answered for a sixteen-block sector of the large format
C11_Witness ==
    /\ last.op = "is_sector_trailer"
    /\ card_type = "4K"
    /\ last.b_id = 143
    /\ last.result

(***************************************************************************)
(* Properties of the decoder.                                              *)
(***************************************************************************)
\* the bytes run_decoders works on, NoBytes when the text does not convert
DecodedBytes ==
    fromhex(replace(replace_all(last.raw_str, "??", "00"), " ", ""))

SplitLabels ==
    {"Current Balance", "Backup Balance", "Usage Counter Value",
     "Value Block Format"}

\* value and counter of the decoded block and the state of their inverses
SplitFields ==
    LET data == DecodedBytes
    IN  [cents |-> UnpackH(BSlice(data, 0, 2)),
         cnt |-> UnpackH(BSlice(data, 2, 4)),
         val_valid |-> Xor16(UnpackH(BSlice(data, 0, 2)),
                             UnpackH(BSlice(data, 4, 6))) = 65535,
         cnt_valid |-> Xor16(UnpackH(BSlice(data, 2, 4)),
                             UnpackH(BSlice(data, 6, 8))) = 65535]

\* the text of a split-value row up to its tag
SplitText(cents, cnt) == Money(cents) \o " (Count: " \o str(cnt) \o ")"

\* C12: for every 16-byte block the first reading is the split-value
\* reading; it reports value/100 and the counter, its tag is the fully-valid
\* tag exactly when both inverse relations hold, and when exactly one holds
\* its tag is neither the fully-valid tag nor the tag of a block with no
\* valid relation
C12_SplitReading ==
    (last.op = "run_decoders" /\ DecodedBytes # NoBytes
        /\ Len(DecodedBytes) = 16) =>
        LET f == SplitFields
            head == SplitText(f.cents, f.cnt)
        IN  /\ last.rows # <<>>
            /\ last.rows[1].label \in SplitLabels
            /\ startswith(last.rows[1].text, head)
            /\ LET tag == From(last.rows[1].text, Len(head))
               IN  /\ (tag = " VALID") <=> (f.val_valid /\ f.cnt_valid)
                   /\ (f.val_valid # f.cnt_valid) =>
                         tag \notin {" VALID", " NO INVERSE"}

\* C14: run_decoders never raises, whatever block index is selected (none
\* included) and whatever the text of the block
C14_DecoderTotal == last.op = "run_decoders" => ~last.raised

(***************************************************************************)
(* Properties of load_file.                                                *)
(***************************************************************************)
\* C13: a load that fails (no block line in the file, or an error raised
\* while loading) leaves the block map, the header lines, the card-size tag,
\* the active balance block and the history as they were
C13_FailedLoadKeeps ==
    [][(last'.op = "load_file" /\ loads' = loads + 1
            /\ last'.result = "error") =>
          UNCHANGED <<blocks, headers, card_type, detected_balance_block,
                      history, current_index>>]_vars

(***************************************************************************)
(* Properties of save_file.                                                *)
(***************************************************************************)
\* the text of line n of the block part of a saved file, after "Block n: "
BlockPart(n) ==
    From(last.lines[Len(headers) + n + 1], Len("Block " \o str(n) \o ": "))

\* C15: the saved file is the header lines, verbatim and in order, directly
\* followed by one block line for each index 0..63 (1K) or 0..255 (4K) in
\* ascending order; the line of an index in the block map carries the stored
\* bytes, the line of a missing index carries the default trailer at a
\* trailer position of the card's layout and sixteen zero bytes elsewhere
C15_SerializedLayout ==
    last.op = "save_file" =>
        LET count == IF card_type = "4K" THEN 256 ELSE 64
        IN  /\ Len(last.lines) = Len(headers) + count
            /\ SubSeq(last.lines, 1, Len(headers)) = headers
            /\ \A n \in 0..(count - 1) :
                  /\ startswith(last.lines[Len(headers) + n + 1],
                                "Block " \o str(n) \o ": ")
                  /\ BlockPart(n) =
                        IF n \in DOMAIN blocks THEN upper(blocks[n])
                        ELSE IF n \in Trailers(card_type)
                        THEN "FF FF FF FF FF FF FF 07 80 69 FF FF FF FF FF FF"
                        ELSE "00 00 00 00 00 00 00 00 00 00 00 00 00 00 00 00"

\* a 4K image with header lines saved: an index of the block map, a missing
\* trailer of a sixteen-block sector and a missing data block
C15_Witness ==
    /\ last.op = "save_file"
    /\ card_type = "4K"
    /\ headers # <<>>
    /\ 130 \in DOMAIN blocks
    /\ 143 \notin DOMAIN blocks
    /\ BlockPart(143) = DefaultTrailer
    /\ 144 \notin DOMAIN blocks

\* a token of a block line: two uppercase hex digits or the unknown marker
IsToken(t) ==
    \/ t = "??"
    \/ /\ Len(t) = 2
       /\ \A i \in 0..1 : \E j \in 0..15 : CharAt(t, i) = CharAt(HexChars, j)

\* C16: in every block line of a saved file the data part is a sequence of
\* two-character tokens separated by single spaces, each token two uppercase
\* hex digits or the unknown marker ??
C16_TokenFormat ==
    last.op = "save_file" =>
        \A n \in 0..(Limit(card_type) - 1) :
            LET tokens == split(BlockPart(n))
            IN  /\ BlockPart(n) = join(" ", tokens)
                /\ \A i \in 1..Len(tokens) : IsToken(tokens[i])

(***************************************************************************)
(* Properties of undo, redo and current.                                   *)
(***************************************************************************)
\* the call made by the step, when the step is a call
Made == ops'[Len(ops')]

\* C17: undo succeeds exactly when the cursor is above the oldest entry,
\* redo exactly when it is below the tail; a successful call moves the cursor
\* by one and returns the entry now under it, a call at a boundary returns
\* nothing and leaves the cursor where it was; neither changes the log; and
\* current() is the entry under the cursor, or nothing for an empty log
C17_Boundaries ==
    [][/\ (Len(ops') = Len(ops) + 1 /\ Made.op = "undo") =>
            /\ history' = history
            /\ IF current_index > 0
               THEN /\ current_index' = current_index - 1
                    /\ Made.val = history[current_index' + 1]
               ELSE /\ current_index' = current_index
                    /\ Made.val = NoEntry
       /\ (Len(ops') = Len(ops) + 1 /\ Made.op = "redo") =>
            /\ history' = history
            /\ IF current_index < Len(history) - 1
               THEN /\ current_index' = current_index + 1
                    /\ Made.val = history[current_index' + 1]
               ELSE /\ current_index' = current_index
                    /\ Made.val = NoEntry
       /\ current(history', current_index') =
             IF history' = <<>> THEN NoEntry
             ELSE history'[current_index' + 1]]_vars

\* two pushes, an undo and a redo that succeed, then a redo at the newest
\* entry that returns nothing, an undo that succeeds and an undo at the
\* oldest entry that returns nothing
C17_Witness ==
    /\ Len(ops) = 7
    /\ [i \in 1..7 |-> ops[i].op]
          = <<"push", "push", "undo", "redo", "redo", "undo", "undo">>
    /\ ops[3].val = ops[1].val
    /\ ops[4].val = ops[2].val
    /\ ops[5].val = NoEntry
    /\ ops[7].val = NoEntry
    /\ max_history >= 2

(***************************************************************************)
(* Properties of the history kept by the application.                      *)
(***************************************************************************)
\* C18: the block map of an entry never changes once it is pushed: in every
\* step, an entry that stays in the log (same time of creation) holds the
\* block map it held before, whatever handler ran, also after undo or redo
\* restored it into the live image
C18_SnapshotIndependence ==
    [][\A i \in 1..Len(history), j \in 1..Len(history') :
          history'[j].timestamp = history[i].timestamp =>
              history'[j].blocks = history[i].blocks]_vars

\* the loaded snapshot was restored by undo (the cursor is below the newest
\* entry) and the live image edited again: the entry still holds the loaded
\* block map and differs from the live one
C18_Witness ==
    /\ last.op = "fix_access_bits"
    /\ Len(history) = 2
    /\ current_index = 0
    /\ history[1].description = "Loaded"
    /\ history[1].timestamp = 0
    /\ 4 \in DOMAIN history[1].blocks
    /\ blocks # history[1].blocks

\* C19: every handler that changes the live block map pushes an entry with
\* the resulting map, so the live block map always equals the block map of
\* the history entry under the cursor
C19_LiveIsCursorEntry ==
    current_index >= 0 => blocks = history[current_index + 1].blocks

(***************************************************************************)
(* Properties of update_balance as a change of the whole image.            *)
(***************************************************************************)
\* the block b reads the same before and after the step
SameBlock(b) ==
    IF b \in DOMAIN blocks THEN b \in DOMAIN blocks' /\ blocks'[b] = blocks[b]
    ELSE b \notin DOMAIN blocks'

\* C20: a step of update_balance leaves the header lines, the card type and
\* the active balance block index unchanged; in every mode it leaves every
\* block other than the active block, its mirror and block 2 unchanged; and
\* in the modes hack and normal it changes no block other than the active
\* block and its mirror and leaves block 2 byte for byte unchanged
C20_BalanceFrame ==
    [][(last'.op = "update_balance" /\ edits' = edits + 1) =>
          /\ headers' = headers
          /\ card_type' = card_type
          /\ detected_balance_block' = detected_balance_block
          /\ \A b \in (DOMAIN blocks \cup DOMAIN blocks')
                       \ {detected_balance_block,
                          BackupBlock(detected_balance_block), 2} :
                 SameBlock(b)
          /\ last'.mode \in {"hack", "normal"} =>
                 /\ \A b \in (DOMAIN blocks \cup DOMAIN blocks')
                              \ {detected_balance_block,
                                 BackupBlock(detected_balance_block)} :
                        SameBlock(b)
                 /\ SameBlock(2)]_vars

\* the bytes of a block text when all sixteen are known, NoBytes otherwise
KnownBytes(text) ==
    LET data == fromhex(replace(text, " ", ""))
    IN  IF data # NoBytes /\ Len(data) = 16 THEN data ELSE NoBytes

\* a block that is present, fully known and whose value field (bytes 0-1)
\* is the complement of its inverse field (bytes 4-5)
IsMirror(blks, b) ==
    /\ b \in DOMAIN blks
    /\ KnownBytes(blks[b]) # NoBytes
    /\ \A i \in 1..2 : KnownBytes(blks[b])[i] + KnownBytes(blks[b])[i + 4] = 255

\* C21: a set-balance that succeeds with active block 4 (or 8) makes block 8
\* (or 4) byte-identical to the active block when that block was present,
\* fully known and had value XOR inverse = 0xFFFF; when it was absent, had
\* unknown bytes or failed that check, or when the active block is neither
\* 4 nor 8, no mirror block is written
C21_MirrorPropagation ==
    [][(last'.op = "update_balance" /\ edits' = edits + 1
        /\ last'.result = "ok") =>
          /\ detected_balance_block = 4 =>
                 IF IsMirror(blocks, 8) THEN blocks'[8] = blocks'[4]
                 ELSE SameBlock(8)
          /\ detected_balance_block = 8 =>
                 IF IsMirror(blocks, 4) THEN blocks'[4] = blocks'[8]
                 ELSE SameBlock(4)
          /\ detected_balance_block \notin {4, 8} =>
                 \A b \in {4, 8} \ {detected_balance_block} : SameBlock(b)]_vars

\* a set-balance changed the active block 4 and its mirror 8 together
C21_Witness ==
    /\ last.op = "update_balance" /\ last.result = "ok" /\ last.mirror
    /\ detected_balance_block = 4
    /\ blocks[8] = blocks[4]
    /\ blocks[8] # last.old_blocks[8]

(***************************************************************************)
(* Properties of the balance-block selection of run_full_scan.             *)
(***************************************************************************)
\* the candidates scanned and the ranked list of the detected operator
Scanned == BalanceCandidates(blocks, card_type, 0)

Ranked == get_balance_blocks(db, detected_operator[1])

Rank(b) == CHOOSE k \in 1..Len(Ranked) : Ranked[k] = b

\* the blocks the four rules allow as the active balance block
Allowed(cands, list) ==
    LET listed == {i \in 1..Len(cands) :
                      \E k \in 1..Len(list) : list[k] = cands[i].block}
        Worse(i, j) ==
            \/ Flag(cands[i].value = 0) > Flag(cands[j].value = 0)
            \/ /\ Flag(cands[i].value = 0) = Flag(cands[j].value = 0)
               /\ Flag(~cands[i].high) > Flag(~cands[j].high)
    IN  IF list # <<>> /\ listed # {}
        THEN {cands[i].block : i \in {i \in listed :
                 \A j \in listed : Rank(cands[i].block) <= Rank(cands[j].block)}}
        ELSE IF cands # <<>>
        THEN {cands[i].block : i \in {i \in 1..Len(cands) :
                 \A j \in 1..Len(cands) : ~Worse(i, j)}}
        ELSE IF list # <<>> THEN {list[1]}
        ELSE {4}

\* C22: after a scan the active balance block is (1) the scanned candidate of
\* lowest rank in the ranked list if any candidate is in the list, (2) else
\* the best candidate by nonzero value then confidence, (3) else the first
\* entry of the ranked list, (4) else 4
C22_SelectionOrder ==
    last.op = "run_full_scan" =>
        detected_balance_block \in Allowed(Scanned, Ranked)

(***************************************************************************)
(* Properties of the transaction record written by update_balance.         *)
(***************************************************************************)
\* the 24-bit little-endian transaction counter in bytes 2-4 of a record
TxCounter(data) == data[3] + 256 * data[4] + 65536 * data[5]

\* C23: a set-balance that succeeds in legit mode with a nonzero delta and a
\* fully read block 2 replaces the transaction counter in bytes 2-4 of
\* block 2 by (old + 1) mod 2^24 and the refill count in byte 5 by
\* (old + 1) mod 256
C23_AuxCounters ==
    [][(/\ last'.op = "update_balance" /\ edits' = edits + 1
        /\ last'.result = "ok" /\ last'.mode = "legit"
        /\ last'.cents # last'.old_cents
        /\ 2 \in DOMAIN blocks /\ KnownBytes(blocks[2]) # NoBytes) =>
          /\ KnownBytes(blocks'[2]) # NoBytes
          /\ TxCounter(KnownBytes(blocks'[2]))
                = (TxCounter(KnownBytes(blocks[2])) + 1) % 16777216
          /\ KnownBytes(blocks'[2])[6]
                = (KnownBytes(blocks[2])[6] + 1) % 256]_vars

(***************************************************************************)
(* Properties of the cursor of a bare HistoryManager.                      *)
(***************************************************************************)
\* the oldest entry of the log is gone after the step
Evicted ==
    /\ history # <<>>
    /\ \A j \in 1..Len(history') : history'[j] # history[1]

IsPush == Len(ops') = Len(ops) + 1 /\ ops'[Len(ops')].op = "push"

\* C24: in a push step the cursor index grows by one if and only if no
\* entry was evicted in that step, and stays as it was when the oldest
\* entry was evicted
C24_CursorAdvance ==
    [][IsPush =>
          /\ (current_index' = current_index + 1) <=> ~Evicted
          /\ Evicted => current_index' = current_index]_vars

\* a log filled to its capacity by pushes, then one more push: the first
\* entry was evicted and the cursor stayed on the last index
C24_Witness ==
    /\ Len(ops) = max_history + 1
    /\ \A i \in 1..Len(ops) : ops[i].op = "push"
    /\ Len(history) = max_history
    /\ history[1] = ops[2].val
    /\ current_index = max_history - 1

\* C26: right after a push the cursor is on the last index of the log,
\* current() returns the entry just pushed and redo is unavailable, for
\* every capacity and also when the push evicted the oldest entry
C26_CursorAtTail ==
    [][IsPush =>
          /\ current_index' = Len(history') - 1
          /\ current(history', current_index') = ops'[Len(ops')].val
          /\ ~can_redo(history', current_index')]_vars

\* an undo below a full log, then pushes up to the capacity and one more
\* that evicts: the cursor is on the entry pushed last
C26_Witness ==
    /\ max_history >= 2
    /\ Len(ops) = max_history + 3
    /\ ops[max_history + 1].op = "undo"
    /\ \A i \in 1..Len(ops) : i # max_history + 1 => ops[i].op = "push"
    /\ Len(history) = max_history
    /\ current(history, current_index) = ops[Len(ops)].val
    /\ history[1] # ops[1].val

(***************************************************************************)
(* Properties of blocks with unknown bytes.                                *)
(***************************************************************************)
\* the text has an unknown marker among its first eight tokens: the value,
\* the counter and their inverses
UnknownInFields(text) ==
    \E i \in 1..Min(8, Len(split(text))) : contains(split(text)[i], "?")

\* C25: the decoder reports no block as inverse-valid that has an unknown
\* marker in its value, counter or inverse fields: no split-value reading
\* tagged valid and no standard value block reading
C25_UnknownNotValid ==
    (last.op = "run_decoders" /\ UnknownInFields(last.raw_str)) =>
        \A i \in 1..Len(last.rows) :
            /\ last.rows[i].label \in SplitLabels =>
                   From(last.rows[i].text, Max(0, Len(last.rows[i].text) - 6))
                       # " VALID"
            /\ last.rows[i].label # "Standard Value Block"

(***************************************************************************)
(* Properties of the outcome of update_balance.                            *)
(***************************************************************************)
\* C27: when update_balance reports success for an amount on a scanned
\* image, whatever the active index, the active
\* balance block is in the block map with the amount in bytes 0-1, and the
\* step pushed exactly one history entry, which holds the new block map
C27_BalancePostcondition ==
    [][(last'.op = "update_balance" /\ edits' = edits + 1
        /\ last'.result = "ok" /\ detected_balance_block # None) =>
          /\ detected_balance_block \in DOMAIN blocks'
          /\ get_bytes_at(blocks', detected_balance_block, 0, 2)
                = PackH(last'.cents)
          /\ Len(history') = current_index + 2
          /\ current_index' = current_index + 1
          /\ history'[Len(history')].blocks = blocks'
          /\ \A i \in 1..(Len(history') - 1) : history'[i] = history[i]]_vars

\* C28: a set-balance in legit mode with an amount in range, a nonzero delta
\* and the counter of the active block at 65535 ends with an error and
\* leaves the block map (active block, mirror, block 2) and the history as
\* they were
C28_OverflowRejected ==
    [][(/\ last'.op = "update_balance" /\ edits' = edits + 1
        /\ last'.mode = "legit" /\ last'.cents \in 0..65535
        /\ TruthyBlock(detected_balance_block)
        /\ detected_balance_block \in DOMAIN blocks
        /\ get_bytes_at(blocks, detected_balance_block, 2, 2) = <<255, 255>>
        /\ get_bytes_at(blocks, detected_balance_block, 0, 2)
              # PackH(last'.cents)) =>
          /\ last'.result = "error"
          /\ blocks' = blocks
          /\ history' = history
          /\ current_index' = current_index]_vars

\* a top-up of a card whose counter was at 65535 ended with an error
C28_Witness ==
    /\ last.op = "update_balance" /\ last.mode = "legit"
    /\ last.result = "error"
    /\ last.current_counter = 65535
    /\ last.cents = 1150 /\ last.old_cents = 1000
    /\ blocks = last.old_blocks
    /\ blocks[detected_balance_block]
          = "E8 03 FF FF 17 FC 00 00 E8 03 FF FF 04 FB 04 FB"

(***************************************************************************)
(* Properties of the history across loads.                                 *)
(***************************************************************************)
\* C29: undo never moves the cursor below the snapshot pushed by a load:
\* the entries under and after the new cursor position hold no snapshot of
\* a load other than the one the cursor lands on, so the live image never
\* goes back to a file loaded before
C29_NoUndoAcrossLoads ==
    [][current_index' < current_index =>
          \A j \in (current_index' + 2)..Len(history) :
              history[j].description # "Loaded"]_vars

(***************************************************************************)
(* Properties of the trailers the program writes.                          *)
(***************************************************************************)
\* a trailer text the program produces: the default trailer of save_file, or
\* a sixteen-token text as fix_access_bits leaves it
WrittenTrailer(b_id, text) ==
    /\ b_id # None
    /\ is_sector_trailer(card_type, b_id)
    /\ Len(split(text)) = 16
    /\ text = DefaultTrailer \/ text = FixedBlock(card_type, b_id, text)

\* C30: the decoder reports every trailer the program itself writes as
\* well-formed: its access status reading is the valid one
C30_WrittenTrailersValid ==
    (last.op = "run_decoders" /\ WrittenTrailer(last.b_id, last.raw_str)) =>
        /\ \E i \in 1..Len(last.rows) :
               last.rows[i] = Row("Access Status", "Valid")
        /\ \A i \in 1..Len(last.rows) :
               last.rows[i].label = "Access Status" =>
                   last.rows[i].text = "Valid"

====
